---------------------------- MODULE Spec2Model ----------------------------
(***************************************************************************)
(* Betweenness centrality, pull style (dist_apps/.../bc_pull/gen.cpp).     *)
(*                                                                         *)
(* The model follows one host (the sync calls of gen.cpp reconcile         *)
(* replicas and change nothing when the graph has a single partition).    *)
(* The graph the operators walk is the stored adjacency: adj[s] is the     *)
(* sequence of edge destinations of s, in edge_begin..edge_end order.      *)
(*                                                                         *)
(* float fields (dependency, to_add_float, betweeness_centrality) are      *)
(* exact rationals <<num, den>>; the conversion float -> uint32_t is the   *)
(* truncation it is in C++.  uint32_t arithmetic is modulo 2^32.           *)
(* The node records are taken to be zero-filled when the graph container   *)
(* hands them out; InitializeGraph sets only the fields it names.          *)
(***************************************************************************)
EXTENDS Integers, Sequences, FiniteSets, TLC

(* ------------------------------ bounds -------------------------------- *)
\* vertices of the enumerated graphs
MaxNodes == 3
\* edges (with multiplicity) of the enumerated graphs
MaxEdges == 2
\* runs of BC::go in one process (numRuns)
MaxRuns == 2

(* ------------------------- program constants -------------------------- *)
\* std::numeric_limits<uint32_t>::max() / 4
infinity == 1073741823
\* cll::init(10000) of maxIterations
DefaultMaxIterations == 10000

(* ------------------------------ uint32_t ------------------------------ *)
\* A uint32_t value u is held as its two's-complement representative:
\* u itself below 2^31 and u - 2^32 from 2^31 on, so that the arithmetic
\* below is the arithmetic modulo 2^32 of the C++ type.
Max31 == 2 * infinity + 1

U32Add(a, b) ==
  IF a >= 0 /\ b >= 0 /\ a > Max31 - b
  THEN ((a - Max31) + (b - Max31)) - 2
  ELSE IF a < 0 /\ b < 0 /\ a < (-Max31 - 1) - b
       THEN ((a + Max31) + (b + Max31)) + 2
       ELSE a + b

U32Neg(b) == IF b = -Max31 - 1 THEN b ELSE -b
U32Sub(a, b) == U32Add(a, U32Neg(b))
\* the unsigned order
U32Less(a, b) == IF (a >= 0) = (b >= 0) THEN a < b ELSE a >= 0

(* --------------------------- exact rationals -------------------------- *)
RECURSIVE GCD(_, _)
GCD(a, b) == IF b = 0 THEN a ELSE GCD(b, a % b)

Abs(x) == IF x < 0 THEN -x ELSE x

\* the rational n/d in lowest terms, d > 0
Rat(n, d) ==
  LET g == GCD(Abs(n), Abs(d))
      s == IF d < 0 THEN -1 ELSE 1
  IN  <<(s * n) \div g, (s * d) \div g>>

RZero == <<0, 1>>
RInt(k) == <<k, 1>>
RAdd(x, y) == Rat(x[1] * y[2] + y[1] * x[2], x[2] * y[2])
RMul(x, y) == Rat(x[1] * y[1], x[2] * y[2])
RPos(x) == x[1] > 0
RLeq(x, y) == x[1] * y[2] <= y[1] * x[2]
\* conversion of a non-negative float to uint32_t: the fractional part is dropped
RTrunc(x) == x[1] \div x[2]

RECURSIVE RSum(_)
RSum(seq) == IF seq = << >> THEN RZero ELSE RAdd(Head(seq), RSum(Tail(seq)))

RECURSIVE Sum(_)
Sum(seq) == IF seq = << >> THEN 0 ELSE Head(seq) + Sum(Tail(seq))

\* the members of a finite set of pairs of integers, in lexicographic order
RECURSIVE SetToSeqE(_)
SetToSeqE(S) ==
  IF S = {} THEN << >>
  ELSE LET m == CHOOSE x \in S :
                  \A y \in S : x[1] < y[1] \/ (x[1] = y[1] /\ x[2] <= y[2])
       IN  <<m>> \o SetToSeqE(S \ {m})

(* ------------------------------- graphs ------------------------------- *)
\* a graph is [n |-> number of vertices, adj |-> [0..n-1 -> Seq(0..n-1)]]
Adj(n, pairs) ==
  [s \in 0..(n - 1) |->
     SelectSeq([k \in 1..Len(pairs) |-> IF pairs[k][1] = s THEN pairs[k][2] ELSE -1],
               LAMBDA t : t >= 0)]

MkGraph(n, pairs) == [n |-> n, adj |-> Adj(n, pairs)]

\* every multiset of at most MaxEdges edges over MaxNodes vertices, each
\* adjacency list in ascending destination order
EdgeCodes(k) ==
  {c \in [1..k -> 0..(MaxNodes * MaxNodes - 1)] :
     \A j \in 1..(k - 1) : c[j] <= c[j + 1]}

DecodeEdges(c) ==
  [j \in 1..Len(c) |-> <<c[j] \div MaxNodes, c[j] % MaxNodes>>]

EnumeratedGraphs ==
  {MkGraph(MaxNodes, DecodeEdges(c)) : c \in UNION {EdgeCodes(k) : k \in 0..MaxEdges}}

\* the scenarios of the specification (section 8), stored transposed: the
\* engine pulls, so the stored edge (s,t) stands for the input edge t -> s
Triangle == MkGraph(3, <<<<1, 0>>, <<2, 1>>, <<2, 0>>>>)
Path4 == MkGraph(4, <<<<1, 0>>, <<2, 1>>, <<3, 2>>>>)
\* the same path with its vertices numbered 1 -> 0 -> 2 -> 3
Path4Renumbered == MkGraph(4, <<<<0, 1>>, <<2, 0>>, <<3, 2>>>>)
Diamond == MkGraph(4, <<<<1, 0>>, <<2, 0>>, <<3, 1>>, <<3, 2>>>>)
Disconnected == MkGraph(4, <<<<1, 0>>, <<3, 2>>>>)
SelfLoop == MkGraph(2, <<<<0, 0>>, <<1, 0>>>>)
\* a diamond hanging below a non-source vertex: 0 -> 1 -> {2,3} -> 4
Kite == MkGraph(5, <<<<1, 0>>, <<2, 1>>, <<3, 1>>, <<4, 2>>, <<4, 3>>>>)
\* the path 0 -> 1 -> 2 with a self-loop on each of its vertices
LoopedPath == MkGraph(3, <<<<0, 0>>, <<1, 1>>, <<1, 0>>, <<2, 1>>, <<2, 2>>>>)

ScenarioGraphs ==
  {Triangle, Path4, Path4Renumbered, Diamond, Disconnected, SelfLoop, Kite,
   LoopedPath}

Graphs == EnumeratedGraphs \cup ScenarioGraphs

(* -------------------------------- state ------------------------------- *)
VARIABLES
  numNodes,               \* _graph.totalNodes
  adj,                    \* stored edges
  singleSourceBC,         \* --singleSource
  startSource,            \* --srcNodeId
  maxIterations,          \* --maxIterations
  numberOfSources,        \* --numOfSources
  random_sources,         \* the std::set of sampled sources
  \* Sanity
  current_max,            \* Sanity::current_max
  current_min,            \* Sanity::current_min
  DGAccumulator_sum,      \* the DGAccumulator<double> of the sum
  sanity_at,              \* position of the Sanity operator on each vertex
  \* NodeData, one function per field
  current_length,
  num_shortest_paths,
  num_successors,
  num_predecessors,
  dependency,
  betweeness_centrality,
  propogation_flag,
  trim,
  to_add,
  trim2,
  to_add_float,
  num_short_paths_flag,
  dep_prop_flag,
  \* driver
  current_src_node,
  pc,                     \* position of the host's single thread of control
  run,                    \* main's run counter
  i,                      \* BC::go's loop counter
  iterations,             \* the running phase loop's iterations counter
  accum,                  \* the shared DGAccumulator<uint32_t> dga
  todo,                   \* vertices the running SSSP do_all has not yet visited
  bc_of_run,              \* history: betweeness_centrality at the end of each run
  nsp_edge_work,          \* history: times NumShortestPaths worked on each edge
  dp_edge_work,           \* history: times DependencyPropogation worked on each edge
  dp_body_runs,           \* history: times DependencyPropogation's body ran on each vertex
  mem,                    \* the node records under the operators of a running do_all
  \* the same program on several hosts
  owner,                  \* the host that owns each vertex
  edge_host,              \* the host each stored edge is placed on
  replica,                \* replica[h][v]: the NodeData of v on host h
  bitset,                 \* bitset[h][f]: the vertices marked in host h's bitset_f
  h_src,                  \* current_src_node of the hosts
  h_pc,                   \* position of the hosts, which move in lockstep
  h_i,                    \* BC::go's loop counter on the hosts
  h_iterations,           \* the running phase loop's iterations counter on the hosts
  h_accum,                \* the DGAccumulator, reduced over the hosts
  h_todo,                 \* <<host, vertex>> the running SSSP do_all has not yet visited
  main_log,               \* history: what main has called since BC::go returned
  output,                 \* the lines given to Galois::Runtime::printOutput
  \* the StatManager of libruntime (Support.cpp)
  activeThreads,          \* Galois::Runtime::activeThreads
  heap,                   \* heap[a]: the string of the std::set node at address a
  symbols,                \* StatManager::symbols: the addresses of its nodes
  loopInstances,          \* StatManager::loopInstances: <<symbol, count>> pairs
  Stats,                  \* StatManager::Stats: the RecordList of each thread
  sm_thread,              \* the call each thread is in, and its locals
  sm_calls,               \* history: the calls made so far
  begun,                  \* history: the reportLoopInstance calls made per loop
  reported                \* history: the records asked for, per list, loop and category

sanityVars == <<current_max, current_min, DGAccumulator_sum, sanity_at>>
\* the command line and the graph
inputVars == <<numNodes, adj, singleSourceBC, startSource, maxIterations,
               numberOfSources, random_sources>>
\* the work the two propagate operators did for the current source, and the
\* node records while a do_all is applied to them operator by operator
workVars == <<nsp_edge_work, dp_edge_work, dp_body_runs, mem>>
\* what no step of BC::go and InitializeGraph::go writes
\* the state of the hosts of a distributed run
hostVars == <<owner, edge_host, main_log, output, replica, bitset, h_src, h_pc, h_i,
              h_iterations, h_accum, h_todo>>
\* the state of the StatManager and of the calls that are under way in it
statVars == <<activeThreads, heap, symbols, loopInstances, Stats, sm_thread, sm_calls,
              begun, reported>>
graphVars == <<inputVars, sanityVars, workVars, hostVars, statVars>>
nodeVars == <<current_length, num_shortest_paths, num_successors, num_predecessors,
              dependency, betweeness_centrality, propogation_flag, trim, to_add,
              trim2, to_add_float, num_short_paths_flag, dep_prop_flag>>
driverVars == <<current_src_node, pc, run, i, iterations, accum, todo, bc_of_run>>
vars == <<graphVars, nodeVars, driverVars>>

Nodes == 0..(numNodes - 1)
\* allNodesWithEdgesRange: the operators do nothing on a vertex without edges
nodesWithEdges == {v \in Nodes : Len(adj[v]) > 0}
EdgeIdx(s) == 1..Len(adj[s])
\* every stored edge, as <<source, index in the source's edge list>>
AllEdges == UNION {{<<s, k>> : k \in EdgeIdx(s)} : s \in Nodes}
Dst(e) == adj[e[1]][e[2]]

(* --------------------------- initial state ---------------------------- *)
\* the node records once the graph is built and InitializeGraph has run
NodeDataAtStart ==
  /\ current_length = [v \in Nodes |-> 0]
  /\ num_shortest_paths = [v \in Nodes |-> 0]
  /\ num_successors = [v \in Nodes |-> 0]
  /\ num_predecessors = [v \in Nodes |-> 0]
  /\ dependency = [v \in Nodes |-> RZero]
  /\ betweeness_centrality = [v \in Nodes |-> RZero]
  /\ propogation_flag = [v \in Nodes |-> FALSE]
  /\ trim = [v \in Nodes |-> 0]
  /\ to_add = [v \in Nodes |-> 0]
  /\ trim2 = [v \in Nodes |-> 0]
  /\ to_add_float = [v \in Nodes |-> RZero]
  /\ num_short_paths_flag = [v \in Nodes |-> FALSE]
  /\ dep_prop_flag = [v \in Nodes |-> FALSE]

\* std::numeric_limits<float>::max() / 4: a float above every betweeness
\* centrality of the bounds, held as the ratio 1/0, which RLeq puts above every
\* rational
FloatMaxOver4 == <<1, 0>>

\* the statics of Sanity and a fresh DGAccumulator; no operator is running
SanityAtStart ==
  /\ current_max = RZero
  /\ current_min = FloatMaxOver4
  /\ DGAccumulator_sum = RZero
  /\ sanity_at = [v \in Nodes |-> "idle"]

\* the process is the only host: there is no partition and there are no replicas
SingleHost ==
  /\ owner = << >>
  /\ edge_host = << >>
  /\ replica = << >>
  /\ bitset = << >>
  /\ h_src = 0
  /\ h_pc = "single_host"
  /\ h_i = 0
  /\ h_iterations = 0
  /\ h_accum = 0
  /\ h_todo = {}
  /\ main_log = << >>
  /\ output = {}

\* no operator has worked on an edge or a vertex yet
WorkAtStart ==
  /\ nsp_edge_work = [e \in AllEdges |-> 0]
  /\ dp_edge_work = [e \in AllEdges |-> 0]
  /\ dp_body_runs = [v \in Nodes |-> 0]
  /\ mem = [of |-> << >>]

(* the StatManager: bounds, names and its state before the first call *)
NumThreads == 2
MaxCalls == 3
MaxThreadCalls == 2
MaxAddr == 3
\* the loop names and the categories the calls are made with; "L" is both
LoopNames == {"L", "M"}
Categories == {"L", "c"}
\* the addresses a node of std::set<std::string> can be allocated at
Addrs == 1..MaxAddr
\* the threads that make calls
Threads == 0..(activeThreads - 1)
\* the calls that are followed: MaxCalls made one after the other by the main
\* thread, MaxThreadCalls made by the threads of a parallel loop
CallBound == IF activeThreads = 1 THEN MaxCalls ELSE MaxThreadCalls

\* a thread that is in no call of the StatManager
IdleThread ==
  [pc |-> "idle", kind |-> "", loop |-> "", category |-> "", lp |-> 0, cp |-> 0, inst |-> 0, args |-> {}, cur |-> "", snap |-> {}, x |-> 0]

\* StatManager() and the PerThreadStorage of empty RecordLists
StatManagerBuilt ==
  /\ heap = [a \in Addrs |-> ""]
  /\ symbols = {}
  /\ loopInstances = << >>
  /\ Stats = [x \in 0..(NumThreads - 1) |-> [lock |-> -1, stats |-> << >>]]
  /\ sm_thread = [t \in 0..(NumThreads - 1) |-> IdleThread]
  /\ sm_calls = 0
  /\ begun = [l \in LoopNames |-> 0]
  /\ reported = [k \in (0..(NumThreads - 1)) \X LoopNames \X Categories |-> 0]

\* the StatManager beside a run of bc_pull: no step of BC::go touches it (every
\* do_all of gen.cpp passes Galois::no_stats(), and main reports its one stat,
\* "Max Iterations", before the first run)
StatManagerUnused == activeThreads = 1 /\ StatManagerBuilt

\* main up to the first BC::go, for the command lines without --maxIterations
\* and --numOfSources: the graph is built, InitializeGraph has run
Init ==
  /\ \E g \in Graphs :
       /\ numNodes = g.n
       /\ adj = g.adj
       /\ \/ singleSourceBC = TRUE /\ startSource \in 0..(g.n - 1)
          \/ singleSourceBC = FALSE /\ startSource = 0
  /\ maxIterations = DefaultMaxIterations
  /\ numberOfSources = 0
  /\ random_sources = {}
  /\ NodeDataAtStart
  /\ SanityAtStart
  /\ WorkAtStart
  /\ StatManagerUnused
  /\ SingleHost
  /\ current_src_node = 0
  /\ pc = "BC_go"
  /\ run = 0
  /\ i = 0
  /\ iterations = 0
  /\ accum = 0
  /\ todo = {}
  /\ bc_of_run = << >>

\* the graphs the runs with other command lines are made on
OptionGraphs == {Triangle, Path4, Diamond}

\* main before the set of sampled sources is built, for the command lines with
\* --maxIterations, --numOfSources and a --srcNodeId up to the first id that is
\* no vertex
InitOptions ==
  /\ \E g \in OptionGraphs :
       /\ numNodes = g.n
       /\ adj = g.adj
       /\ \/ /\ singleSourceBC = TRUE
             /\ startSource \in 0..g.n
             /\ numberOfSources \in 0..1
          \/ /\ singleSourceBC = FALSE
             /\ startSource \in {0, g.n - 1, g.n}
             /\ numberOfSources \in 0..(g.n + 1)
  /\ maxIterations \in {1, DefaultMaxIterations}
  /\ random_sources = {}
  /\ NodeDataAtStart
  /\ SanityAtStart
  /\ WorkAtStart
  /\ StatManagerUnused
  /\ SingleHost
  /\ current_src_node = 0
  /\ pc = "main"
  /\ run = 0
  /\ i = 0
  /\ iterations = 0
  /\ accum = 0
  /\ todo = {}
  /\ bc_of_run = << >>

\* if (numberOfSources != 0) random_sources.insert(startSource)
MainSources ==
  /\ pc = "main"
  /\ random_sources' = IF numberOfSources # 0 THEN {startSource} ELSE random_sources
  /\ pc' = IF numberOfSources # 0 THEN "while_sources" ELSE "BC_go"
  /\ UNCHANGED <<numNodes, adj, singleSourceBC, startSource, maxIterations,
                 numberOfSources, sanityVars, workVars, hostVars, statVars, nodeVars,
                 current_src_node, run, i,
                 iterations, accum, todo, bc_of_run>>

\* one turn of the while loop: a draw of r_dist, over [0, size - 1], is inserted
InsertRandomSource ==
  /\ pc = "while_sources"
  /\ Cardinality(random_sources) < numberOfSources
  /\ \E r \in 0..(numNodes - 1) : random_sources' = random_sources \cup {r}
  /\ UNCHANGED <<numNodes, adj, singleSourceBC, startSource, maxIterations,
                 numberOfSources, sanityVars, workVars, hostVars, statVars, nodeVars,
                 current_src_node, pc, run,
                 i, iterations, accum, todo, bc_of_run>>

\* the while loop's test fails: main goes on to the first run
SourcesBuilt ==
  /\ pc = "while_sources"
  /\ ~(Cardinality(random_sources) < numberOfSources)
  /\ pc' = "BC_go"
  /\ UNCHANGED <<graphVars, nodeVars, current_src_node, run, i, iterations, accum,
                 todo, bc_of_run>>

(* ------------------------------ BC::go -------------------------------- *)
\* loop_end of BC::go
loop_end ==
  IF singleSourceBC THEN 1
  ELSE IF numberOfSources # 0 THEN numberOfSources
  ELSE numNodes

\* *random_sources_iterator after n increments from random_sources.begin():
\* a std::set is walked in ascending order
SourceAt(n) ==
  CHOOSE x \in random_sources : Cardinality({y \in random_sources : y < x}) = n

\* BC::go is entered: i = 0
BC_go ==
  /\ pc = "BC_go"
  /\ i' = 0
  /\ pc' = "for"
  /\ UNCHANGED <<graphVars, nodeVars, current_src_node, run, iterations, accum,
                 todo, bc_of_run>>

\* the for loop taking the sources of an all-sources run from the last vertex
\* down to vertex 0
NextSource_Descending ==
  /\ pc = "for"
  /\ i < loop_end
  /\ current_src_node' =
       IF singleSourceBC THEN startSource
       ELSE IF numberOfSources # 0 THEN SourceAt(i)
       ELSE loop_end - 1 - i
  /\ iterations' = 0
  /\ pc' = "InitializeIteration"
  /\ UNCHANGED <<graphVars, nodeVars, run, i, accum, todo, bc_of_run>>

\* the for loop's test and the choice of the source
NextSource ==
  /\ pc = "for"
  /\ i < loop_end
  /\ current_src_node' =
       IF singleSourceBC THEN startSource
       ELSE IF numberOfSources # 0 THEN SourceAt(i)
       ELSE i
  /\ iterations' = 0
  /\ pc' = "InitializeIteration"
  /\ UNCHANGED <<graphVars, nodeVars, run, i, accum, todo, bc_of_run>>

(* ------------------------ InitializeIteration ------------------------- *)
\* assert(src_data.num_predecessors == 0) holds on every vertex
InitIterationAssertsHold == \A v \in Nodes : num_predecessors[v] = 0

\* InitializeIteration::operator() that resets the betweeness centrality too,
\* as InitializeGraph::operator() does
InitializeIteration_ResetBC ==
  /\ pc = "InitializeIteration"
  /\ current_length' =
       [v \in Nodes |-> IF v = current_src_node THEN 0 ELSE infinity]
  /\ num_shortest_paths' = [v \in Nodes |-> IF v = current_src_node THEN 1 ELSE 0]
  /\ propogation_flag' = [v \in Nodes |-> v = current_src_node]
  /\ num_successors' = [v \in Nodes |-> 0]
  /\ betweeness_centrality' = [v \in Nodes |-> RZero]
  /\ num_short_paths_flag' = [v \in Nodes |-> FALSE]
  /\ dep_prop_flag' = [v \in Nodes |-> FALSE]
  /\ pc' = IF InitIterationAssertsHold THEN "SSSP" ELSE "assert_num_predecessors"
  /\ nsp_edge_work' = [e \in AllEdges |-> 0]
  /\ dp_edge_work' = [e \in AllEdges |-> 0]
  /\ dp_body_runs' = [v \in Nodes |-> 0]
  /\ UNCHANGED <<inputVars, sanityVars, hostVars, statVars, mem, num_predecessors, dependency,
                 trim, to_add, trim2, to_add_float, current_src_node, run, i,
                 iterations, accum, todo, bc_of_run>>

\* InitializeIteration::operator() without src_data.num_successors = 0
InitializeIteration_KeepSuccessors ==
  /\ pc = "InitializeIteration"
  /\ current_length' =
       [v \in Nodes |-> IF v = current_src_node THEN 0 ELSE infinity]
  /\ num_shortest_paths' = [v \in Nodes |-> IF v = current_src_node THEN 1 ELSE 0]
  /\ propogation_flag' = [v \in Nodes |-> v = current_src_node]
  /\ num_short_paths_flag' = [v \in Nodes |-> FALSE]
  /\ dep_prop_flag' = [v \in Nodes |-> FALSE]
  /\ pc' = IF InitIterationAssertsHold THEN "SSSP" ELSE "assert_num_predecessors"
  /\ nsp_edge_work' = [e \in AllEdges |-> 0]
  /\ dp_edge_work' = [e \in AllEdges |-> 0]
  /\ dp_body_runs' = [v \in Nodes |-> 0]
  /\ UNCHANGED <<inputVars, sanityVars, hostVars, statVars, mem, num_successors,
                 num_predecessors,
                 dependency, betweeness_centrality, trim, to_add, trim2, to_add_float,
                 current_src_node, run, i, iterations, accum, todo, bc_of_run>>

\* InitializeIteration::operator() with the largest uint32_t as the distance
\* of a vertex that is not the source
InitializeIteration_MaxLength ==
  /\ pc = "InitializeIteration"
  /\ current_length' =
       [v \in Nodes |-> IF v = current_src_node THEN 0 ELSE -1]
  /\ num_shortest_paths' = [v \in Nodes |-> IF v = current_src_node THEN 1 ELSE 0]
  /\ propogation_flag' = [v \in Nodes |-> v = current_src_node]
  /\ num_successors' = [v \in Nodes |-> 0]
  /\ num_short_paths_flag' = [v \in Nodes |-> FALSE]
  /\ dep_prop_flag' = [v \in Nodes |-> FALSE]
  /\ pc' = IF InitIterationAssertsHold THEN "SSSP" ELSE "assert_num_predecessors"
  /\ nsp_edge_work' = [e \in AllEdges |-> 0]
  /\ dp_edge_work' = [e \in AllEdges |-> 0]
  /\ dp_body_runs' = [v \in Nodes |-> 0]
  /\ UNCHANGED <<inputVars, sanityVars, hostVars, statVars, mem, num_predecessors, dependency,
                 betweeness_centrality, trim, to_add, trim2, to_add_float,
                 current_src_node, run, i, iterations, accum, todo, bc_of_run>>

InitializeIteration ==
  /\ pc = "InitializeIteration"
  /\ current_length' =
       [v \in Nodes |-> IF v = current_src_node THEN 0 ELSE infinity]
  /\ num_shortest_paths' = [v \in Nodes |-> IF v = current_src_node THEN 1 ELSE 0]
  /\ propogation_flag' = [v \in Nodes |-> v = current_src_node]
  /\ num_successors' = [v \in Nodes |-> 0]
  /\ num_short_paths_flag' = [v \in Nodes |-> FALSE]
  /\ dep_prop_flag' = [v \in Nodes |-> FALSE]
  /\ pc' = IF InitIterationAssertsHold THEN "SSSP" ELSE "assert_num_predecessors"
  /\ nsp_edge_work' = [e \in AllEdges |-> 0]
  /\ dp_edge_work' = [e \in AllEdges |-> 0]
  /\ dp_body_runs' = [v \in Nodes |-> 0]
  /\ UNCHANGED <<inputVars, sanityVars, hostVars, statVars, mem, num_predecessors, dependency,
                 betweeness_centrality, trim, to_add, trim2, to_add_float,
                 current_src_node, run, i, iterations, accum, todo, bc_of_run>>

(* -------------------------------- SSSP -------------------------------- *)
\* SSSP::operator() with the edge weight left out of new_dist
RECURSIVE SSSPEdges_NoWeight(_, _, _, _)
SSSPEdges_NoWeight(src, k, len, cnt) ==
  IF k > Len(adj[src]) THEN <<len, cnt>>
  ELSE LET dst == adj[src][k]
           dlen == IF dst = src THEN len ELSE current_length[dst]
           new_dist == dlen
       IN  IF U32Less(new_dist, len)
           THEN SSSPEdges_NoWeight(src, k + 1, new_dist, cnt + 1)
           ELSE SSSPEdges_NoWeight(src, k + 1, len, cnt)

\* SSSP::operator() that takes new_dist whenever it differs from the current
\* distance
RECURSIVE SSSPEdges_AnyChange(_, _, _, _)
SSSPEdges_AnyChange(src, k, len, cnt) ==
  IF k > Len(adj[src]) THEN <<len, cnt>>
  ELSE LET dst == adj[src][k]
           dlen == IF dst = src THEN len ELSE current_length[dst]
           new_dist == U32Add(1, dlen)
       IN  IF new_dist # len
           THEN SSSPEdges_AnyChange(src, k + 1, new_dist, cnt + 1)
           ELSE SSSPEdges_AnyChange(src, k + 1, len, cnt)

\* the edge loop of SSSP::operator() from edge k on: <<current_length of src,
\* number of DGAccumulator increments>>
RECURSIVE SSSPEdges(_, _, _, _)
SSSPEdges(src, k, len, cnt) ==
  IF k > Len(adj[src]) THEN <<len, cnt>>
  ELSE LET dst == adj[src][k]
           dlen == IF dst = src THEN len ELSE current_length[dst]
           new_dist == U32Add(1, dlen)
       IN  IF U32Less(new_dist, len)
           THEN SSSPEdges(src, k + 1, new_dist, cnt + 1)
           ELSE SSSPEdges(src, k + 1, len, cnt)

\* SSSP::go, top of the do loop: dga.reset() and the do_all is started
SSSP_round ==
  /\ pc = "SSSP"
  /\ accum' = 0
  /\ todo' = nodesWithEdges
  /\ pc' = "SSSP_do_all"
  /\ UNCHANGED <<graphVars, nodeVars, current_src_node, run, i, iterations,
                 bc_of_run>>

\* one worker applies SSSP::operator() to one vertex of the range
SSSP_operator ==
  /\ pc = "SSSP_do_all"
  /\ \E src \in todo :
       LET r == SSSPEdges(src, 1, current_length[src], 0)
       IN  /\ current_length' = [current_length EXCEPT ![src] = r[1]]
           /\ accum' = U32Add(accum, r[2])
           /\ todo' = todo \ {src}
  /\ UNCHANGED <<graphVars, num_shortest_paths, num_successors, num_predecessors,
                 dependency, betweeness_centrality, propogation_flag, trim, to_add,
                 trim2, to_add_float, num_short_paths_flag, dep_prop_flag,
                 current_src_node, pc, run, i, iterations, bc_of_run>>

\* SSSP::go with a single pass of its loop body in place of the do-while
SSSP_while_OnePass ==
  /\ pc = "SSSP_do_all"
  /\ todo = {}
  /\ iterations' = 0
  /\ pc' = "PredAndSucc"
  /\ UNCHANGED <<graphVars, nodeVars, current_src_node, run, i, accum, todo,
                 bc_of_run>>

\* the do_all has ended: iterations++, accum_result = dga.reduce(), while test
SSSP_while ==
  /\ pc = "SSSP_do_all"
  /\ todo = {}
  /\ iterations' = IF accum # 0 THEN iterations + 1 ELSE 0
  /\ pc' = IF accum # 0 THEN "SSSP" ELSE "PredAndSucc"
  /\ UNCHANGED <<graphVars, nodeVars, current_src_node, run, i, accum, todo,
                 bc_of_run>>

(* ----------------------------- PredAndSucc ---------------------------- *)
\* the test of the two distances that lets an edge from a vertex to itself pass
OnShortestPath_LoopCounts(e) ==
  \/ Dst(e) = e[1]
  \/ U32Add(current_length[Dst(e)], 1) = current_length[e[1]]

\* the test of PredAndSucc::operator() on the stored edge e = (src, dst)
OnShortestPath(e) ==
  U32Add(current_length[Dst(e)], 1) = current_length[e[1]]

\* PredAndSucc::operator() without its test of the two distances
PredAndSuccEdges_NoTest ==
  {e \in AllEdges : current_length[e[1]] # infinity}

\* the edges on which PredAndSucc::operator() increments the two counters
PredAndSuccEdges ==
  {e \in AllEdges : current_length[e[1]] # infinity /\ OnShortestPath(e)}

\* PredAndSucc::go: the operator on every vertex with edges
PredAndSucc ==
  /\ pc = "PredAndSucc"
  /\ num_predecessors' =
       [v \in Nodes |->
          U32Add(num_predecessors[v], Cardinality({e \in PredAndSuccEdges : e[1] = v}))]
  /\ num_successors' =
       [v \in Nodes |->
          U32Add(num_successors[v], Cardinality({e \in PredAndSuccEdges : Dst(e) = v}))]
  /\ pc' = "NumShortestPaths"
  /\ UNCHANGED <<graphVars, current_length, num_shortest_paths, dependency,
                 betweeness_centrality, propogation_flag, trim, to_add, trim2,
                 to_add_float, num_short_paths_flag, dep_prop_flag, current_src_node,
                 run, i, iterations, accum, todo, bc_of_run>>

(* --------------------------- NumShortestPaths ------------------------- *)
\* NumShortestPaths::operator() without its test of the destination's flag
NumShortestPathsEdges_AnyFlag ==
  {e \in AllEdges :
     /\ current_length[e[1]] # infinity
     /\ num_predecessors[e[1]] # 0
     /\ OnShortestPath(e)}

\* the edges on which NumShortestPaths::operator() does work
NumShortestPathsEdges ==
  {e \in AllEdges :
     /\ current_length[e[1]] # infinity
     /\ num_predecessors[e[1]] # 0
     /\ propogation_flag[Dst(e)]
     /\ OnShortestPath(e)}

\* top of the do loop: dga.reset(), then the operator on every vertex with edges
NumShortestPaths ==
  /\ pc = "NumShortestPaths"
  /\ trim' =
       [v \in Nodes |->
          U32Add(trim[v], Cardinality({e \in NumShortestPathsEdges : e[1] = v}))]
  /\ to_add' =
       [v \in Nodes |->
          U32Add(to_add[v],
                 Sum([k \in EdgeIdx(v) |->
                        IF <<v, k>> \in NumShortestPathsEdges
                        THEN num_shortest_paths[adj[v][k]] ELSE 0]))]
  /\ accum' = Cardinality(NumShortestPathsEdges)
  /\ nsp_edge_work' =
       [e \in AllEdges |->
          IF e \in NumShortestPathsEdges THEN nsp_edge_work[e] + 1
          ELSE nsp_edge_work[e]]
  /\ pc' = "NSPTrim"
  /\ UNCHANGED <<inputVars, sanityVars, hostVars, statVars, mem, dp_edge_work, dp_body_runs,
                 current_length, num_shortest_paths, num_successors,
                 num_predecessors, dependency, betweeness_centrality,
                 propogation_flag, trim2, to_add_float, num_short_paths_flag,
                 dep_prop_flag, current_src_node, run, i, iterations, todo,
                 bc_of_run>>

\* NSPTrim::operator() that empties trim without taking it off num_predecessors
NSPTrim_KeepCount ==
  /\ pc = "NSPTrim"
  /\ trim' = [v \in Nodes |-> 0]
  /\ pc' = "NSPAdd"
  /\ UNCHANGED <<graphVars, current_length, num_shortest_paths, num_successors,
                 num_predecessors, dependency, betweeness_centrality,
                 propogation_flag, to_add, trim2, to_add_float, num_short_paths_flag,
                 dep_prop_flag, current_src_node, run, i, iterations, accum, todo,
                 bc_of_run>>

\* NSPTrim::operator() that takes one predecessor off, whatever trim holds
NSPTrim_OneOnly ==
  /\ pc = "NSPTrim"
  /\ num_predecessors' =
       [v \in Nodes |->
          IF trim[v] # 0 THEN U32Sub(num_predecessors[v], 1)
          ELSE num_predecessors[v]]
  /\ trim' = [v \in Nodes |-> 0]
  /\ pc' = "NSPAdd"
  /\ UNCHANGED <<graphVars, current_length, num_shortest_paths, num_successors,
                 dependency, betweeness_centrality, propogation_flag, to_add, trim2,
                 to_add_float, num_short_paths_flag, dep_prop_flag, current_src_node,
                 run, i, iterations, accum, todo, bc_of_run>>

NSPTrim ==
  /\ pc = "NSPTrim"
  /\ num_predecessors' =
       [v \in Nodes |->
          IF trim[v] # 0 THEN U32Sub(num_predecessors[v], trim[v])
          ELSE num_predecessors[v]]
  /\ trim' = [v \in Nodes |-> 0]
  /\ pc' = "NSPAdd"
  /\ UNCHANGED <<graphVars, current_length, num_shortest_paths, num_successors,
                 dependency, betweeness_centrality, propogation_flag, to_add, trim2,
                 to_add_float, num_short_paths_flag, dep_prop_flag, current_src_node,
                 run, i, iterations, accum, todo, bc_of_run>>

NSPAdd ==
  /\ pc = "NSPAdd"
  /\ num_shortest_paths' =
       [v \in Nodes |->
          IF to_add[v] # 0 THEN U32Add(num_shortest_paths[v], to_add[v])
          ELSE num_shortest_paths[v]]
  /\ to_add' = [v \in Nodes |-> 0]
  /\ pc' = "NumShortestPathsChanges"
  /\ UNCHANGED <<graphVars, current_length, num_successors, num_predecessors,
                 dependency, betweeness_centrality, propogation_flag, trim, trim2,
                 to_add_float, num_short_paths_flag, dep_prop_flag, current_src_node,
                 run, i, iterations, accum, todo, bc_of_run>>

\* the first branch of NumShortestPathsChanges::operator() without its test of
\* num_successors
TakenAndNotLeaf_AnyCount(v) ==
  /\ current_length[v] # infinity
  /\ num_predecessors[v] = 0 /\ propogation_flag[v]

\* the two branches of NumShortestPathsChanges::operator() that write
TakenAndNotLeaf(v) ==
  /\ current_length[v] # infinity
  /\ num_predecessors[v] = 0 /\ propogation_flag[v]
  /\ num_successors[v] # 0

\* NumShortestPathsChanges::operator() flagging without its test of
\* num_predecessors
BecomesReady_AnyCount(v) ==
  /\ current_length[v] # infinity
  /\ ~(num_predecessors[v] = 0 /\ propogation_flag[v])
  /\ ~num_short_paths_flag[v]

BecomesReady(v) ==
  /\ current_length[v] # infinity
  /\ ~(num_predecessors[v] = 0 /\ propogation_flag[v])
  /\ num_predecessors[v] = 0 /\ ~num_short_paths_flag[v]

\* NumShortestPathsChanges::go, then iterations++, dga.reduce(), while test
NumShortestPathsChanges ==
  /\ pc = "NumShortestPathsChanges"
  /\ propogation_flag' =
       [v \in Nodes |->
          IF TakenAndNotLeaf(v) THEN FALSE
          ELSE IF BecomesReady(v) THEN TRUE
          ELSE propogation_flag[v]]
  /\ num_short_paths_flag' =
       [v \in Nodes |->
          IF TakenAndNotLeaf(v) \/ BecomesReady(v) THEN TRUE
          ELSE num_short_paths_flag[v]]
  /\ iterations' = IF accum # 0 THEN iterations + 1 ELSE 0
  /\ pc' = IF accum # 0 THEN "NumShortestPaths" ELSE "DependencyPropogation"
  /\ UNCHANGED <<graphVars, current_length, num_shortest_paths, num_successors,
                 num_predecessors, dependency, betweeness_centrality, trim, to_add,
                 trim2, to_add_float, dep_prop_flag, current_src_node, run, i, accum,
                 todo, bc_of_run>>

(* ------------------------ DependencyPropogation ----------------------- *)
\* the vertices on which DependencyPropogation::operator() enters its body
Propogating(v) == current_length[v] # infinity /\ propogation_flag[v]

\* assert(src_data.num_successors == 0) holds on every vertex that propagates
DependencyAssertsHold ==
  \A v \in Nodes : (v \in nodesWithEdges /\ Propogating(v)) => num_successors[v] = 0

\* DependencyPropogation::operator() without its test of the destination's
\* global id against the current source
DependencyEdges_IntoSource ==
  {e \in AllEdges :
     /\ Propogating(e[1])
     /\ OnShortestPath(e)}

\* the edges on which DependencyPropogation::operator() does work
DependencyEdges ==
  {e \in AllEdges :
     /\ Propogating(e[1])
     /\ Dst(e) # current_src_node
     /\ OnShortestPath(e)}

\* uint32_t dep = src_data.dependency
Dep(src) == RTrunc(dependency[src])

\* the contribution without the successor's own share: sigma(dst) / sigma(src)
\* times the dependency alone
Contribution_NoOwnShare(e) ==
  RMul(<<num_shortest_paths[Dst(e)], num_shortest_paths[e[1]]>>,
       RInt(Dep(e[1])))

\* the value the operator adds to dst_data.to_add_float on the edge e
Contribution(e) ==
  RMul(<<num_shortest_paths[Dst(e)], num_shortest_paths[e[1]]>>,
       RInt(1 + Dep(e[1])))

\* top of the do loop: dga.reset(), then the operator on every vertex with edges
DependencyPropogation ==
  /\ pc = "DependencyPropogation"
  /\ IF DependencyAssertsHold
     THEN /\ trim2' =
               [v \in Nodes |->
                  U32Add(trim2[v], Cardinality({e \in DependencyEdges : Dst(e) = v}))]
          /\ to_add_float' =
               [v \in Nodes |->
                  RAdd(to_add_float[v],
                       RSum([k \in 1..Cardinality({e \in DependencyEdges : Dst(e) = v}) |->
                               Contribution(
                                 SetToSeqE({e \in DependencyEdges : Dst(e) = v})[k])]))]
          /\ propogation_flag' =
               [v \in Nodes |->
                  IF v \in nodesWithEdges /\ Propogating(v) THEN FALSE
                  ELSE propogation_flag[v]]
          /\ dep_prop_flag' =
               [v \in Nodes |->
                  IF v \in nodesWithEdges /\ Propogating(v) THEN TRUE
                  ELSE dep_prop_flag[v]]
          /\ accum' = Cardinality(DependencyEdges)
          /\ dp_edge_work' =
               [e \in AllEdges |->
                  IF e \in DependencyEdges THEN dp_edge_work[e] + 1
                  ELSE dp_edge_work[e]]
          /\ dp_body_runs' =
               [v \in Nodes |->
                  IF v \in nodesWithEdges /\ Propogating(v) THEN dp_body_runs[v] + 1
                  ELSE dp_body_runs[v]]
          /\ pc' = "DPTrim"
     ELSE /\ pc' = "assert_num_successors"
          /\ UNCHANGED <<trim2, to_add_float, propogation_flag, dep_prop_flag, accum,
                         dp_edge_work, dp_body_runs>>
  /\ UNCHANGED <<inputVars, sanityVars, hostVars, statVars, mem, nsp_edge_work,
                 current_length, num_shortest_paths, num_successors,
                 num_predecessors, dependency, betweeness_centrality, trim, to_add,
                 num_short_paths_flag, current_src_node, run, i, iterations, todo,
                 bc_of_run>>

DPTrim ==
  /\ pc = "DPTrim"
  /\ num_successors' =
       [v \in Nodes |->
          IF trim2[v] # 0 THEN U32Sub(num_successors[v], trim2[v])
          ELSE num_successors[v]]
  /\ trim' = [v \in Nodes |-> IF trim2[v] # 0 THEN 0 ELSE trim[v]]
  /\ pc' = "DPAdd"
  /\ UNCHANGED <<graphVars, current_length, num_shortest_paths, num_predecessors,
                 dependency, betweeness_centrality, propogation_flag, to_add, trim2,
                 to_add_float, num_short_paths_flag, dep_prop_flag, current_src_node,
                 run, i, iterations, accum, todo, bc_of_run>>

DPAdd ==
  /\ pc = "DPAdd"
  /\ dependency' =
       [v \in Nodes |->
          IF RPos(to_add_float[v]) THEN RAdd(dependency[v], to_add_float[v])
          ELSE dependency[v]]
  /\ to_add_float' =
       [v \in Nodes |-> IF RPos(to_add_float[v]) THEN RZero ELSE to_add_float[v]]
  /\ pc' = "DependencyPropChanges"
  /\ UNCHANGED <<graphVars, current_length, num_shortest_paths, num_successors,
                 num_predecessors, betweeness_centrality, propogation_flag, trim,
                 to_add, trim2, num_short_paths_flag, dep_prop_flag, current_src_node,
                 run, i, iterations, accum, todo, bc_of_run>>

\* DependencyPropChanges::operator() without its test of num_successors
BecomesLeaf_AnyCount(v) ==
  /\ v \in nodesWithEdges
  /\ current_length[v] # infinity
  /\ ~dep_prop_flag[v]

\* DependencyPropChanges::operator() without its test of dep_prop_flag
BecomesLeaf_AnyTime(v) ==
  /\ v \in nodesWithEdges
  /\ current_length[v] # infinity
  /\ num_successors[v] = 0

\* the vertices DependencyPropChanges::operator() flags
BecomesLeaf(v) ==
  /\ v \in nodesWithEdges
  /\ current_length[v] # infinity
  /\ num_successors[v] = 0 /\ ~dep_prop_flag[v]

\* DependencyPropogation::go with a loop that does not test accum_result
DependencyPropChanges_NoTest ==
  /\ pc = "DependencyPropChanges"
  /\ propogation_flag' =
       [v \in Nodes |-> IF BecomesLeaf(v) THEN TRUE ELSE propogation_flag[v]]
  /\ dep_prop_flag' =
       [v \in Nodes |-> IF BecomesLeaf(v) THEN TRUE ELSE dep_prop_flag[v]]
  /\ iterations' = iterations + 1
  /\ pc' = "DependencyPropogation"
  /\ UNCHANGED <<graphVars, current_length, num_shortest_paths, num_successors,
                 num_predecessors, dependency, betweeness_centrality, trim, to_add,
                 trim2, to_add_float, num_short_paths_flag, current_src_node, run, i,
                 accum, todo, bc_of_run>>

\* DependencyPropChanges::go, then iterations++, dga.reduce(), while test
DependencyPropChanges ==
  /\ pc = "DependencyPropChanges"
  /\ propogation_flag' =
       [v \in Nodes |-> IF BecomesLeaf(v) THEN TRUE ELSE propogation_flag[v]]
  /\ dep_prop_flag' =
       [v \in Nodes |-> IF BecomesLeaf(v) THEN TRUE ELSE dep_prop_flag[v]]
  /\ iterations' = IF accum # 0 THEN iterations + 1 ELSE 0
  /\ pc' = IF accum # 0 THEN "DependencyPropogation" ELSE "BC"
  /\ UNCHANGED <<graphVars, current_length, num_shortest_paths, num_successors,
                 num_predecessors, dependency, betweeness_centrality, trim, to_add,
                 trim2, to_add_float, num_short_paths_flag, current_src_node, run, i,
                 accum, todo, bc_of_run>>

(* --------------------------------- BC --------------------------------- *)
\* BC::operator() without src_data.dependency = 0
BC_KeepDependency ==
  /\ pc = "BC"
  /\ betweeness_centrality' =
       [v \in Nodes |->
          IF RPos(dependency[v]) THEN RAdd(betweeness_centrality[v], dependency[v])
          ELSE betweeness_centrality[v]]
  /\ i' = i + 1
  /\ pc' = "for"
  /\ UNCHANGED <<graphVars, current_length, num_shortest_paths, num_successors,
                 num_predecessors, dependency, propogation_flag, trim, to_add, trim2,
                 to_add_float, num_short_paths_flag, dep_prop_flag, current_src_node,
                 run, iterations, accum, todo, bc_of_run>>

\* the do_all of BC::operator() that ends the for loop's body, then i++
BC ==
  /\ pc = "BC"
  /\ betweeness_centrality' =
       [v \in Nodes |->
          IF RPos(dependency[v]) THEN RAdd(betweeness_centrality[v], dependency[v])
          ELSE betweeness_centrality[v]]
  /\ dependency' =
       [v \in Nodes |-> IF RPos(dependency[v]) THEN RZero ELSE dependency[v]]
  /\ i' = i + 1
  /\ pc' = "for"
  /\ UNCHANGED <<graphVars, current_length, num_shortest_paths, num_successors,
                 num_predecessors, propogation_flag, trim, to_add, trim2, to_add_float,
                 num_short_paths_flag, dep_prop_flag, current_src_node, run,
                 iterations, accum, todo, bc_of_run>>

(* -------------------------------- main -------------------------------- *)
\* BC::go returns: the for loop's test fails
EndRun ==
  /\ pc = "for"
  /\ ~(i < loop_end)
  /\ bc_of_run' = Append(bc_of_run, betweeness_centrality)
  /\ pc' = "run_end"
  /\ UNCHANGED <<graphVars, nodeVars, current_src_node, run, i, iterations, accum,
                 todo>>

\* (run + 1) != numRuns: InitializeGraph::go for the next run, ++run.
\* Sanity::go, called before it, writes nothing a run reads; its steps are
\* the Sanity actions of SpecSanity
InitializeGraph ==
  /\ pc = "run_end"
  /\ run + 1 < MaxRuns
  /\ betweeness_centrality' = [v \in Nodes |-> RZero]
  /\ num_shortest_paths' = [v \in Nodes |-> 0]
  /\ num_successors' = [v \in Nodes |-> 0]
  /\ num_predecessors' = [v \in Nodes |-> 0]
  /\ dependency' = [v \in Nodes |-> RZero]
  /\ propogation_flag' = [v \in Nodes |-> FALSE]
  /\ run' = run + 1
  /\ pc' = "BC_go"
  /\ UNCHANGED <<graphVars, current_length, trim, to_add, trim2, to_add_float,
                 num_short_paths_flag, dep_prop_flag, current_src_node, i,
                 iterations, accum, todo, bc_of_run>>

\* (run + 1) == numRuns: the last run has ended, main returns 0
Finish ==
  /\ pc = "run_end"
  /\ pc' = "done"
  /\ UNCHANGED <<graphVars, nodeVars, current_src_node, run, i, iterations, accum,
                 todo, bc_of_run>>

Next ==
  \/ BC_go
  \/ NextSource
  \/ InitializeIteration
  \/ SSSP_round
  \/ SSSP_operator
  \/ SSSP_while
  \/ PredAndSucc
  \/ NumShortestPaths
  \/ NSPTrim
  \/ NSPAdd
  \/ NumShortestPathsChanges
  \/ DependencyPropogation
  \/ DPTrim
  \/ DPAdd
  \/ DependencyPropChanges
  \/ BC
  \/ EndRun
  \/ InitializeGraph
  \/ Finish

Spec == Init /\ [][Next]_vars

\* inside SSSP::go the host's thread of control takes its next step, and the
\* do_all applies the operator to every vertex of its range
FairSSSP ==
  Spec /\ WF_vars(SSSP_round) /\ WF_vars(SSSP_operator) /\ WF_vars(SSSP_while)

\* inside NumShortestPaths::go the host's thread of control takes its next step
FairNumShortestPaths ==
  /\ Spec
  /\ WF_vars(NumShortestPaths) /\ WF_vars(NSPTrim) /\ WF_vars(NSPAdd)
  /\ WF_vars(NumShortestPathsChanges)

\* DependencyPropogation::go's do_all_local returns: the step that leaves the
\* propagate superstep.  DependencyPropogation is the only action of Next
\* taken at this pc and is enabled whenever the pc is there (both branches of
\* its test assign every variable)
do_all_local_returns ==
  /\ pc = "DependencyPropogation"
  /\ pc' \in {"DPTrim", "assert_num_successors"}

\* main's thread of control takes its next step wherever it is
FairMain ==
  /\ Spec
  /\ WF_pc(do_all_local_returns)
  /\ WF_vars(pc # "DependencyPropogation" /\ Next)

(* ------------------------------- Sanity ------------------------------- *)
\* the command line and the graph
RLess(x, y) == ~RLeq(y, x)

\* main resets the two statics, Sanity::go resets the accumulators and starts
\* the do_all over every vertex
Sanity_go ==
  /\ pc = "run_end"
  /\ current_max' = RZero
  /\ current_min' = FloatMaxOver4
  /\ DGAccumulator_sum' = RZero
  /\ sanity_at' = [v \in Nodes |-> "test_max"]
  /\ pc' = "Sanity_do_all"
  /\ UNCHANGED <<inputVars, workVars, hostVars, statVars,
                 nodeVars, current_src_node, run, i, iterations, accum,
                 todo, bc_of_run>>

\* a worker evaluates current_max < sdata.betweeness_centrality
Sanity_test_max ==
  /\ pc = "Sanity_do_all"
  /\ \E v \in Nodes :
       /\ sanity_at[v] = "test_max"
       /\ sanity_at' =
            [sanity_at EXCEPT ![v] =
               IF RLess(current_max, betweeness_centrality[v]) THEN "write_max"
               ELSE "test_min"]
  /\ UNCHANGED <<inputVars, workVars, hostVars, statVars,
                 current_max, current_min, DGAccumulator_sum, nodeVars,
                 driverVars>>

\* the worker stores current_max = sdata.betweeness_centrality
Sanity_write_max ==
  /\ pc = "Sanity_do_all"
  /\ \E v \in Nodes :
       /\ sanity_at[v] = "write_max"
       /\ current_max' = betweeness_centrality[v]
       /\ sanity_at' = [sanity_at EXCEPT ![v] = "test_min"]
  /\ UNCHANGED <<inputVars, workVars, hostVars, statVars,
                 current_min, DGAccumulator_sum, nodeVars, driverVars>>

\* the worker evaluates current_min > sdata.betweeness_centrality
Sanity_test_min ==
  /\ pc = "Sanity_do_all"
  /\ \E v \in Nodes :
       /\ sanity_at[v] = "test_min"
       /\ sanity_at' =
            [sanity_at EXCEPT ![v] =
               IF RLess(betweeness_centrality[v], current_min) THEN "write_min"
               ELSE "add"]
  /\ UNCHANGED <<inputVars, workVars, hostVars, statVars,
                 current_max, current_min, DGAccumulator_sum, nodeVars,
                 driverVars>>

\* the worker stores current_min = sdata.betweeness_centrality
Sanity_write_min ==
  /\ pc = "Sanity_do_all"
  /\ \E v \in Nodes :
       /\ sanity_at[v] = "write_min"
       /\ current_min' = betweeness_centrality[v]
       /\ sanity_at' = [sanity_at EXCEPT ![v] = "add"]
  /\ UNCHANGED <<inputVars, workVars, hostVars, statVars,
                 current_max, DGAccumulator_sum, nodeVars, driverVars>>

\* DGAccumulator_sum += sdata.betweeness_centrality: the operator is done
Sanity_add ==
  /\ pc = "Sanity_do_all"
  /\ \E v \in Nodes :
       /\ sanity_at[v] = "add"
       /\ DGAccumulator_sum' = RAdd(DGAccumulator_sum, betweeness_centrality[v])
       /\ sanity_at' = [sanity_at EXCEPT ![v] = "idle"]
  /\ UNCHANGED <<inputVars, workVars, hostVars, statVars,
                 current_max, current_min, nodeVars, driverVars>>

\* the do_all has ended: the three values are reduced and printed; with
\* numRuns = 1 main then returns
Sanity_print ==
  /\ pc = "Sanity_do_all"
  /\ \A v \in Nodes : sanity_at[v] = "idle"
  /\ pc' = "Sanity_end"
  /\ UNCHANGED <<graphVars, nodeVars, current_src_node, run, i, iterations, accum,
                 todo, bc_of_run>>

\* one run of main (numRuns = 1) with its call of Sanity::go
NextSanity ==
  \/ BC_go
  \/ NextSource
  \/ InitializeIteration
  \/ SSSP_round
  \/ SSSP_operator
  \/ SSSP_while
  \/ PredAndSucc
  \/ NumShortestPaths
  \/ NSPTrim
  \/ NSPAdd
  \/ NumShortestPathsChanges
  \/ DependencyPropogation
  \/ DPTrim
  \/ DPAdd
  \/ DependencyPropChanges
  \/ BC
  \/ EndRun
  \/ Sanity_go
  \/ Sanity_test_max
  \/ Sanity_write_max
  \/ Sanity_test_min
  \/ Sanity_write_min
  \/ Sanity_add
  \/ Sanity_print

SpecSanity == Init /\ [][NextSanity]_vars

\* the program from the top of main, over the command lines of InitOptions
NextOptions ==
  \/ MainSources
  \/ InsertRandomSource
  \/ SourcesBuilt
  \/ Next

SpecOptions == InitOptions /\ [][NextOptions]_vars

(* ---------------- the do_all loops, operator by operator -------------- *)
\* The three phases whose operator walks the edges of its vertex and writes,
\* run one operator application at a time in any order.  The workers write the
\* node records in place; mem holds them while the do_all is at work, and the
\* fields take them over when the do_all has ended.
\* the do_all the records in mem belong to
Superstep == <<run, i, pc, iterations>>

\* the node records, the accumulator and the work counters as a do_all finds them
NodeDataNow ==
  [of |-> Superstep, failed |-> FALSE,
   current_length |-> current_length, num_shortest_paths |-> num_shortest_paths,
   num_successors |-> num_successors, num_predecessors |-> num_predecessors,
   dependency |-> dependency, betweeness_centrality |-> betweeness_centrality,
   propogation_flag |-> propogation_flag, trim |-> trim, to_add |-> to_add,
   trim2 |-> trim2, to_add_float |-> to_add_float,
   num_short_paths_flag |-> num_short_paths_flag, dep_prop_flag |-> dep_prop_flag,
   accum |-> IF pc = "PredAndSucc" THEN accum ELSE 0,
   nsp_edge_work |-> nsp_edge_work, dp_edge_work |-> dp_edge_work,
   dp_body_runs |-> dp_body_runs]

\* the fields an operator of the do_all at position p reads in dst_data, the
\* record of the destination of an edge
NeighbourReads(p) ==
  CASE p = "SSSP_do_all" -> {"current_length"}
    [] p = "PredAndSucc" -> {"current_length"}
    [] p = "NumShortestPaths" ->
         {"propogation_flag", "current_length", "num_shortest_paths"}
    [] p = "DependencyPropogation" -> {"current_length", "num_shortest_paths"}
    [] OTHER -> {}

\* dga.reset() where the phase has one, then Galois::do_all_local is entered
\* over allNodesWithEdgesRange
do_all_local ==
  /\ pc \in {"PredAndSucc", "NumShortestPaths", "DependencyPropogation"}
  /\ mem.of # Superstep
  /\ mem' = NodeDataNow
  /\ todo' = nodesWithEdges
  /\ UNCHANGED <<inputVars, sanityVars, hostVars, statVars, nsp_edge_work, dp_edge_work,
                 dp_body_runs, nodeVars, current_src_node, pc, run, i, iterations,
                 accum, bc_of_run>>

\* PredAndSucc::operator() counting the predecessor on the destination's record
RECURSIVE PredAndSuccFrom_OnDst(_, _, _)
PredAndSuccFrom_OnDst(M, src, k) ==
  IF k > Len(adj[src]) THEN M
  ELSE LET dst == adj[src][k]
       IN  IF U32Add(M.current_length[dst], 1) = M.current_length[src]
           THEN PredAndSuccFrom_OnDst([M EXCEPT !.num_predecessors[dst] = U32Add(@, 1),
                                                !.num_successors[dst] = U32Add(@, 1)],
                                      src, k + 1)
           ELSE PredAndSuccFrom_OnDst(M, src, k + 1)

\* the edge loop of PredAndSucc::operator() from edge k on
RECURSIVE PredAndSuccFrom(_, _, _)
PredAndSuccFrom(M, src, k) ==
  IF k > Len(adj[src]) THEN M
  ELSE LET dst == adj[src][k]
       IN  IF U32Add(M.current_length[dst], 1) = M.current_length[src]
           THEN PredAndSuccFrom([M EXCEPT !.num_predecessors[src] = U32Add(@, 1),
                                          !.num_successors[dst] = U32Add(@, 1)],
                                src, k + 1)
           ELSE PredAndSuccFrom(M, src, k + 1)

\* one worker applies PredAndSucc::operator() to one vertex of the range
PredAndSucc_operator ==
  /\ pc = "PredAndSucc" /\ mem.of = Superstep
  /\ \E src \in todo :
       /\ mem' = IF mem.current_length[src] # infinity
                 THEN PredAndSuccFrom(mem, src, 1)
                 ELSE mem
       /\ todo' = todo \ {src}
  /\ UNCHANGED <<inputVars, sanityVars, hostVars, statVars, nsp_edge_work, dp_edge_work,
                 dp_body_runs, nodeVars, current_src_node, pc, run, i, iterations,
                 accum, bc_of_run>>

\* NumShortestPaths::operator() adding to num_shortest_paths itself, without
\* the to_add buffer
RECURSIVE NumShortestPathsFrom_InPlace(_, _, _)
NumShortestPathsFrom_InPlace(M, src, k) ==
  IF k > Len(adj[src]) THEN M
  ELSE LET dst == adj[src][k]
       IN  IF /\ M.propogation_flag[dst]
              /\ U32Add(M.current_length[dst], 1) = M.current_length[src]
           THEN NumShortestPathsFrom_InPlace(
                  [M EXCEPT !.trim[src] = U32Add(@, 1),
                            !.num_shortest_paths[src] =
                               U32Add(@, M.num_shortest_paths[dst]),
                            !.accum = @ + 1,
                            !.nsp_edge_work[<<src, k>>] = @ + 1],
                  src, k + 1)
           ELSE NumShortestPathsFrom_InPlace(M, src, k + 1)

\* the edge loop of NumShortestPaths::operator() from edge k on
RECURSIVE NumShortestPathsFrom(_, _, _)
NumShortestPathsFrom(M, src, k) ==
  IF k > Len(adj[src]) THEN M
  ELSE LET dst == adj[src][k]
       IN  IF /\ M.propogation_flag[dst]
              /\ U32Add(M.current_length[dst], 1) = M.current_length[src]
           THEN NumShortestPathsFrom(
                  [M EXCEPT !.trim[src] = U32Add(@, 1),
                            !.to_add[src] = U32Add(@, M.num_shortest_paths[dst]),
                            !.accum = @ + 1,
                            !.nsp_edge_work[<<src, k>>] = @ + 1],
                  src, k + 1)
           ELSE NumShortestPathsFrom(M, src, k + 1)

\* one worker applies NumShortestPaths::operator() to one vertex of the range
NumShortestPaths_operator ==
  /\ pc = "NumShortestPaths" /\ mem.of = Superstep
  /\ \E src \in todo :
       /\ mem' = IF /\ mem.current_length[src] # infinity
                    /\ mem.num_predecessors[src] # 0
                 THEN NumShortestPathsFrom(mem, src, 1)
                 ELSE mem
       /\ todo' = todo \ {src}
  /\ UNCHANGED <<inputVars, sanityVars, hostVars, statVars, nsp_edge_work, dp_edge_work,
                 dp_body_runs, nodeVars, current_src_node, pc, run, i, iterations,
                 accum, bc_of_run>>

\* the edge loop of DependencyPropogation::operator() from edge k on
RECURSIVE DependencyPropogationFrom(_, _, _)
DependencyPropogationFrom(M, src, k) ==
  IF k > Len(adj[src]) THEN M
  ELSE LET dst == adj[src][k]
           dep == RTrunc(M.dependency[src])
       IN  IF /\ dst # current_src_node
              /\ U32Add(M.current_length[dst], 1) = M.current_length[src]
           THEN DependencyPropogationFrom(
                  [M EXCEPT !.trim2[dst] = U32Add(@, 1),
                            !.to_add_float[dst] =
                               RAdd(@, RMul(<<M.num_shortest_paths[dst],
                                              M.num_shortest_paths[src]>>,
                                            RInt(1 + dep))),
                            !.accum = @ + 1,
                            !.dp_edge_work[<<src, k>>] = @ + 1],
                  src, k + 1)
           ELSE DependencyPropogationFrom(M, src, k + 1)

\* one worker applies DependencyPropogation::operator() to one vertex of the
\* range; a failed assert ends the process
DependencyPropogation_operator ==
  /\ pc = "DependencyPropogation" /\ mem.of = Superstep
  /\ \E src \in todo :
       IF mem.current_length[src] # infinity /\ mem.propogation_flag[src]
       THEN IF mem.num_successors[src] # 0
            THEN /\ mem' = [mem EXCEPT !.failed = TRUE]
                 /\ todo' = {}
            ELSE /\ mem' = [DependencyPropogationFrom(mem, src, 1) EXCEPT
                              !.propogation_flag[src] = FALSE,
                              !.dep_prop_flag[src] = TRUE,
                              !.dp_body_runs[src] = @ + 1]
                 /\ todo' = todo \ {src}
       ELSE /\ mem' = mem
            /\ todo' = todo \ {src}
  /\ UNCHANGED <<inputVars, sanityVars, hostVars, statVars, nsp_edge_work, dp_edge_work,
                 dp_body_runs, nodeVars, current_src_node, pc, run, i, iterations,
                 accum, bc_of_run>>

\* do_all_local returns: every operator has run, the go function goes on
do_all_end ==
  /\ pc \in {"PredAndSucc", "NumShortestPaths", "DependencyPropogation"}
  /\ mem.of = Superstep
  /\ todo = {}
  /\ IF mem.failed
     THEN /\ pc' = "assert_num_successors"
          /\ UNCHANGED <<nodeVars, accum, nsp_edge_work, dp_edge_work, dp_body_runs>>
     ELSE /\ current_length' = mem.current_length
          /\ num_shortest_paths' = mem.num_shortest_paths
          /\ num_successors' = mem.num_successors
          /\ num_predecessors' = mem.num_predecessors
          /\ dependency' = mem.dependency
          /\ betweeness_centrality' = mem.betweeness_centrality
          /\ propogation_flag' = mem.propogation_flag
          /\ trim' = mem.trim
          /\ to_add' = mem.to_add
          /\ trim2' = mem.trim2
          /\ to_add_float' = mem.to_add_float
          /\ num_short_paths_flag' = mem.num_short_paths_flag
          /\ dep_prop_flag' = mem.dep_prop_flag
          /\ accum' = mem.accum
          /\ nsp_edge_work' = mem.nsp_edge_work
          /\ dp_edge_work' = mem.dp_edge_work
          /\ dp_body_runs' = mem.dp_body_runs
          /\ pc' = CASE pc = "PredAndSucc" -> "NumShortestPaths"
                     [] pc = "NumShortestPaths" -> "NSPTrim"
                     [] pc = "DependencyPropogation" -> "DPTrim"
  /\ UNCHANGED <<inputVars, sanityVars, hostVars, statVars, mem, current_src_node, run, i,
                 iterations, todo, bc_of_run>>

NextOperators ==
  \/ BC_go
  \/ NextSource
  \/ InitializeIteration
  \/ SSSP_round
  \/ SSSP_operator
  \/ SSSP_while
  \/ do_all_local
  \/ PredAndSucc_operator
  \/ NumShortestPaths_operator
  \/ DependencyPropogation_operator
  \/ do_all_end
  \/ NSPTrim
  \/ NSPAdd
  \/ NumShortestPathsChanges
  \/ DPTrim
  \/ DPAdd
  \/ DependencyPropChanges
  \/ BC
  \/ EndRun
  \/ InitializeGraph
  \/ Finish

SpecOperators == Init /\ [][NextOperators]_vars

(* --------------------------- several hosts ---------------------------- *)
\* The same program run by NumHosts processes over a partitioned graph. Each
\* stored edge is placed on one host; a host holds a replica of every vertex
\* it owns and of every endpoint of its edges. The hosts run the same steps
\* in lockstep and meet in _graph.sync and dga.reduce(). The build is the one
\* with the bitsets and without sync_on_demand (__OPT_VERSION__ 3).
NumHosts == 2
Hosts == 0..(NumHosts - 1)

\* the stored edges host h holds
LocalEdges(h) == {e \in AllEdges : edge_host[e] = h}
\* allNodesRange of host h
LocalNodes(h) ==
  {v \in Nodes : owner[v] = h \/ \E e \in LocalEdges(h) : e[1] = v \/ Dst(e) = v}
\* allNodesWithEdgesRange of host h
LocalNodesWithEdges(h) == {v \in Nodes : \E e \in LocalEdges(h) : e[1] = v}
\* the hosts that hold a replica of v, the owner among them
Replicas(v) == {h \in Hosts : v \in LocalNodes(h)}

\* the fields that have a bitset
SyncedFields ==
  {"current_length", "num_predecessors", "num_successors", "trim", "to_add", "trim2",
   "to_add_float"}

\* a NodeData once the graph is built and InitializeGraph has run
NodeDataBuilt ==
  [current_length |-> 0, num_shortest_paths |-> 0, num_successors |-> 0,
   num_predecessors |-> 0, dependency |-> RZero, betweeness_centrality |-> RZero,
   propogation_flag |-> FALSE, trim |-> 0, to_add |-> 0, trim2 |-> 0,
   to_add_float |-> RZero, num_short_paths_flag |-> FALSE, dep_prop_flag |-> FALSE]

\* the members of a finite set of integers in ascending order
RECURSIVE SetToSeqN(_)
SetToSeqN(S) ==
  IF S = {} THEN << >>
  ELSE LET m == CHOOSE x \in S : \A y \in S : x <= y
       IN  <<m>> \o SetToSeqN(S \ {m})

(* the sync engine *)
\* Reduce_min_f and Reduce_add_f on one value
Combine(kind, a, b) ==
  CASE kind = "min" -> IF U32Less(b, a) THEN b ELSE a
    [] kind = "add" -> U32Add(a, b)
    [] kind = "add_float" -> RAdd(a, b)

\* what a reduction leaves in the replica it has read: an added value is
\* taken out of the replica, a minimum is left in place
AfterExtract(kind, a) ==
  CASE kind = "min" -> a
    [] kind = "add" -> 0
    [] kind = "add_float" -> RZero

RECURSIVE ReduceInto(_, _, _)
ReduceInto(kind, acc, vals) ==
  IF vals = << >> THEN acc
  ELSE ReduceInto(kind, Combine(kind, acc, Head(vals)), Tail(vals))

\* the replicas of v whose bit of field f is set in the bitsets B
Marked(B, f, v) == {h \in Replicas(v) : v \in B[h][f]}

\* _graph.sync<writeAny, readAny, Reduce_kind_f, Broadcast_g, Bitset_f> on the
\* replicas R under the bitsets B: for every vertex marked on some host the
\* marked replicas are reduced into the owner's field f, then the owner's
\* field g is written to every replica
Sync(R, B, kind, f, g) ==
  LET dirty == {v \in Nodes : Marked(B, f, v) # {}}
      senders(v) == SetToSeqN(Marked(B, f, v) \ {owner[v]})
      reduced(v) ==
        ReduceInto(kind, R[owner[v]][v][f],
                   [k \in 1..Len(senders(v)) |-> R[senders(v)[k]][v][f]])
      R1 == [h \in Hosts |-> [v \in Nodes |->
               IF v \notin dirty THEN R[h][v]
               ELSE IF h = owner[v] THEN [R[h][v] EXCEPT ![f] = reduced(v)]
               ELSE IF h \in Marked(B, f, v)
                    THEN [R[h][v] EXCEPT ![f] = AfterExtract(kind, @)]
                    ELSE R[h][v]]]
  IN  [h \in Hosts |-> [v \in Nodes |->
         IF v \in dirty /\ h \in Replicas(v)
         THEN [R1[h][v] EXCEPT ![g] = R1[owner[v]][v][g]]
         ELSE R1[h][v]]]

\* the bitsets B once the sync of field f has cleared bitset_f on every host
Cleared(B, f) == [h \in Hosts |-> [B[h] EXCEPT ![f] = {}]]

\* the bitsets B with the vertices of S(h) marked in host h's bitset_f
MarkedIn(B, f, S) == [h \in Hosts |-> [B[h] EXCEPT ![f] = @ \cup S[h]]]

\* the variables of the single-host run
singleVars == <<inputVars, sanityVars, workVars, statVars, nodeVars, driverVars>>

\* the graphs the distributed runs are made on: the path 0 -> 1 -> 2 -> 3, the
\* fork 0 -> 1 -> {2, 3} and the diamond
Fork == MkGraph(4, <<<<1, 0>>, <<2, 1>>, <<3, 1>>>>)
HostGraphs == {Path4, Fork, Diamond}

\* main of every host up to the first BC::go: the graph is partitioned, every
\* vertex has an owner, every edge a host, and InitializeGraph has run on
\* every replica; the single-host run of the same command line stands beside
InitHosts ==
  /\ \E g \in HostGraphs :
       /\ numNodes = g.n
       /\ adj = g.adj
       /\ \/ singleSourceBC = TRUE /\ startSource = 0
          \/ singleSourceBC = FALSE /\ startSource = 0
  /\ maxIterations = DefaultMaxIterations
  /\ numberOfSources = 0
  /\ random_sources = {}
  /\ NodeDataAtStart
  /\ SanityAtStart
  /\ WorkAtStart
  /\ StatManagerUnused
  /\ current_src_node = 0
  /\ pc = "BC_go"
  /\ run = 0
  /\ i = 0
  /\ iterations = 0
  /\ accum = 0
  /\ todo = {}
  /\ bc_of_run = << >>
  /\ owner \in [Nodes -> Hosts]
  /\ edge_host \in [AllEdges -> Hosts]
  /\ replica = [h \in Hosts |-> [v \in Nodes |-> NodeDataBuilt]]
  /\ bitset = [h \in Hosts |-> [f \in SyncedFields |-> {}]]
  /\ h_src = 0
  /\ h_pc = "BC_go"
  /\ h_i = 0
  /\ h_iterations = 0
  /\ h_accum = 0
  /\ h_todo = {}
  /\ main_log = << >>
  /\ output = {}

\* the phase the driver is in: 1 reset, 2 BFS, 3 Pred/Succ, 4 sigma-phase,
\* 5 delta-phase, 6 BC fold, 0 between two sources
PhaseAt(p) ==
  CASE p = "InitializeIteration" -> 1
    [] p \in {"SSSP", "SSSP_do_all"} -> 2
    [] p = "PredAndSucc" -> 3
    [] p \in {"NumShortestPaths", "NSPTrim", "NSPAdd", "NumShortestPathsChanges"} -> 4
    [] p \in {"DependencyPropogation", "DPTrim", "DPAdd", "DependencyPropChanges"} -> 5
    [] p = "BC" -> 6
    [] OTHER -> 0

\* how far a process is: the sources done and the phase of the current one
Position(n, p) == 7 * n + PhaseAt(p)
\* the hosts wait at the start of a phase until the single-host run has ended
\* that phase, then run it themselves; they end their run after it has ended
HostsTurn == Position(h_i, h_pc) < Position(i, pc) \/ pc = "run_end"
SingleHostTurn == ~HostsTurn

(* the steps of the hosts *)
\* BC::go is entered on every host
BC_go_hosts ==
  /\ HostsTurn
  /\ h_pc = "BC_go"
  /\ h_i' = 0
  /\ h_pc' = "for"
  /\ UNCHANGED <<singleVars, owner, edge_host, main_log, output,
                 replica, bitset, h_src, h_iterations,
                 h_accum, h_todo>>

\* the for loop's test and the choice of the source, the same on every host
NextSource_hosts ==
  /\ HostsTurn
  /\ h_pc = "for"
  /\ h_i < loop_end
  /\ h_src' = IF singleSourceBC THEN startSource ELSE h_i
  /\ h_iterations' = 0
  /\ h_pc' = "InitializeIteration"
  /\ UNCHANGED <<singleVars, owner, edge_host, main_log, output,
                 replica, bitset, h_i, h_accum, h_todo>>

\* the for loop has ended on every host
EndRun_hosts ==
  /\ HostsTurn
  /\ h_pc = "for"
  /\ ~(h_i < loop_end)
  /\ h_pc' = "run_end"
  /\ UNCHANGED <<singleVars, owner, edge_host, main_log, output,
                 replica, bitset, h_src, h_i,
                 h_iterations, h_accum, h_todo>>

\* the replica of v on host h once a do_all over allNodesRange has ended that
\* leaves d in the NodeData of the vertices it visits
OnLocalNodes(h, v, d) == IF v \in LocalNodes(h) THEN d ELSE replica[h][v]

\* InitializeIteration::operator() on the replica of v on host h
InitializeIterationOn(h, v) ==
  [replica[h][v] EXCEPT
     !.current_length = IF v = h_src THEN 0 ELSE infinity,
     !.num_shortest_paths = IF v = h_src THEN 1 ELSE 0,
     !.propogation_flag = (v = h_src),
     !.num_successors = 0,
     !.num_short_paths_flag = FALSE,
     !.dep_prop_flag = FALSE]

\* InitializeIteration::go on every host, with its assertion
InitializeIteration_hosts ==
  /\ HostsTurn
  /\ h_pc = "InitializeIteration"
  /\ replica' =
       [h \in Hosts |-> [v \in Nodes |-> OnLocalNodes(h, v, InitializeIterationOn(h, v))]]
  /\ h_pc' =
       IF \A h \in Hosts : \A v \in LocalNodes(h) : replica[h][v].num_predecessors = 0
       THEN "SSSP" ELSE "assert_num_predecessors"
  /\ UNCHANGED <<singleVars, owner, edge_host, main_log, output,
                 bitset, h_src, h_i, h_iterations,
                 h_accum, h_todo>>

\* the edge loop of SSSP::operator() on host h from edge k of src on, over the
\* edges of src that host h holds
RECURSIVE SSSPEdgesOn(_, _, _, _, _)
SSSPEdgesOn(h, src, k, len, cnt) ==
  IF k > Len(adj[src]) THEN <<len, cnt>>
  ELSE IF edge_host[<<src, k>>] # h THEN SSSPEdgesOn(h, src, k + 1, len, cnt)
  ELSE LET dst == adj[src][k]
           dlen == IF dst = src THEN len ELSE replica[h][dst].current_length
           new_dist == U32Add(1, dlen)
       IN  IF U32Less(new_dist, len)
           THEN SSSPEdgesOn(h, src, k + 1, new_dist, cnt + 1)
           ELSE SSSPEdgesOn(h, src, k + 1, len, cnt)

\* SSSP::go, top of the do loop on every host
SSSP_round_hosts ==
  /\ HostsTurn
  /\ h_pc = "SSSP"
  /\ h_accum' = 0
  /\ h_todo' = {<<h, v>> \in Hosts \X Nodes : v \in LocalNodesWithEdges(h)}
  /\ h_pc' = "SSSP_do_all"
  /\ UNCHANGED <<singleVars, owner, edge_host, main_log, output,
                 replica, bitset, h_src, h_i,
                 h_iterations>>

\* one worker of the first host that still has work applies SSSP::operator()
\* to one vertex of its range; the hosts write their own replicas only, so
\* the order of the hosts does not matter
SSSP_operator_hosts ==
  /\ HostsTurn
  /\ h_pc = "SSSP_do_all"
  /\ \E t \in h_todo :
       /\ \A u \in h_todo : t[1] <= u[1]
       /\ LET h == t[1]
              src == t[2]
              r == SSSPEdgesOn(h, src, 1, replica[h][src].current_length, 0)
          IN  /\ replica' = [replica EXCEPT ![h][src].current_length = r[1]]
              /\ bitset' =
                   IF r[2] > 0
                   THEN [bitset EXCEPT ![h]["current_length"] = @ \cup {src}]
                   ELSE bitset
              /\ h_accum' = U32Add(h_accum, r[2])
              /\ h_todo' = h_todo \ {t}
  /\ UNCHANGED <<singleVars, owner, edge_host, main_log, output,
                 h_src, h_pc, h_i, h_iterations>>

\* the do_all has ended on every host: iterations++, dga.reduce(), the sync of
\* current_length, the while test
SSSP_while_hosts ==
  /\ HostsTurn
  /\ h_pc = "SSSP_do_all"
  /\ h_todo = {}
  /\ replica' = Sync(replica, bitset, "min", "current_length", "current_length")
  /\ bitset' = Cleared(bitset, "current_length")
  /\ h_iterations' = IF h_accum # 0 THEN h_iterations + 1 ELSE 0
  /\ h_pc' = IF h_accum # 0 THEN "SSSP" ELSE "PredAndSucc"
  /\ UNCHANGED <<singleVars, owner, edge_host, main_log, output,
                 h_src, h_i, h_accum, h_todo>>

\* the test of the two distances on the stored edge e, on the replicas of host h
OnShortestPathOn(h, e) ==
  U32Add(replica[h][Dst(e)].current_length, 1) = replica[h][e[1]].current_length

\* the edges on which PredAndSucc::operator() increments the counters on host h
PredAndSuccEdgesOn(h) ==
  {e \in LocalEdges(h) :
     replica[h][e[1]].current_length # infinity /\ OnShortestPathOn(h, e)}

\* PredAndSucc::go on every host: the operator, then the sync of
\* num_predecessors and the sync of num_successors
PredAndSucc_hosts ==
  /\ HostsTurn
  /\ h_pc = "PredAndSucc"
  /\ LET counted ==
           [h \in Hosts |-> [v \in Nodes |->
              [replica[h][v] EXCEPT
                 !.num_predecessors =
                    U32Add(@, Cardinality({e \in PredAndSuccEdgesOn(h) : e[1] = v})),
                 !.num_successors =
                    U32Add(@, Cardinality({e \in PredAndSuccEdgesOn(h) : Dst(e) = v}))]]]
         marks ==
           MarkedIn(MarkedIn(bitset, "num_predecessors",
                             [h \in Hosts |-> {e[1] : e \in PredAndSuccEdgesOn(h)}]),
                    "num_successors",
                    [h \in Hosts |-> {Dst(e) : e \in PredAndSuccEdgesOn(h)}])
     IN  /\ replica' =
              Sync(Sync(counted, marks, "add", "num_predecessors", "num_predecessors"),
                   marks, "add", "num_successors", "num_successors")
         /\ bitset' = Cleared(Cleared(marks, "num_predecessors"), "num_successors")
  /\ h_pc' = "NumShortestPaths"
  /\ UNCHANGED <<singleVars, owner, edge_host, main_log, output,
                 h_src, h_i, h_iterations, h_accum,
                 h_todo>>

\* the edges on which NumShortestPaths::operator() does work on host h
NumShortestPathsEdgesOn(h) ==
  {e \in LocalEdges(h) :
     /\ replica[h][e[1]].current_length # infinity
     /\ replica[h][e[1]].num_predecessors # 0
     /\ replica[h][Dst(e)].propogation_flag
     /\ OnShortestPathOn(h, e)}

\* top of the do loop on every host: dga.reset(), the operator, the sync of trim
NumShortestPaths_hosts ==
  /\ HostsTurn
  /\ h_pc = "NumShortestPaths"
  /\ LET pulled ==
           [h \in Hosts |-> [v \in Nodes |->
              [replica[h][v] EXCEPT
                 !.trim =
                    U32Add(@, Cardinality({e \in NumShortestPathsEdgesOn(h) : e[1] = v})),
                 !.to_add =
                    U32Add(@, Sum([k \in EdgeIdx(v) |->
                                     IF <<v, k>> \in NumShortestPathsEdgesOn(h)
                                     THEN replica[h][adj[v][k]].num_shortest_paths
                                     ELSE 0]))]]]
         sources == [h \in Hosts |-> {e[1] : e \in NumShortestPathsEdgesOn(h)}]
         marks == MarkedIn(MarkedIn(bitset, "trim", sources), "to_add", sources)
     IN  /\ replica' = Sync(pulled, marks, "add", "trim", "trim")
         /\ bitset' = Cleared(marks, "trim")
  /\ h_accum' = Sum([k \in 1..NumHosts |-> Cardinality(NumShortestPathsEdgesOn(k - 1))])
  /\ h_pc' = "NSPTrim"
  /\ UNCHANGED <<singleVars, owner, edge_host, main_log, output,
                 h_src, h_i, h_iterations, h_todo>>

\* NSPTrim::operator() on the replica of v on host h
NSPTrimOn(h, v) ==
  IF replica[h][v].trim # 0
  THEN [replica[h][v] EXCEPT !.num_predecessors = U32Sub(@, replica[h][v].trim),
                             !.trim = 0]
  ELSE replica[h][v]

\* NSPTrim::go on every host, then the sync of to_add
NSPTrim_hosts ==
  /\ HostsTurn
  /\ h_pc = "NSPTrim"
  /\ replica' =
       Sync([h \in Hosts |-> [v \in Nodes |-> OnLocalNodes(h, v, NSPTrimOn(h, v))]],
            bitset, "add", "to_add", "to_add")
  /\ bitset' = Cleared(bitset, "to_add")
  /\ h_pc' = "NSPAdd"
  /\ UNCHANGED <<singleVars, owner, edge_host, main_log, output,
                 h_src, h_i, h_iterations, h_accum,
                 h_todo>>

\* NSPAdd::operator() on the replica of v on host h
NSPAddOn(h, v) ==
  IF replica[h][v].to_add # 0
  THEN [replica[h][v] EXCEPT !.num_shortest_paths = U32Add(@, replica[h][v].to_add),
                             !.to_add = 0]
  ELSE replica[h][v]

\* NSPAdd::go on every host
NSPAdd_hosts ==
  /\ HostsTurn
  /\ h_pc = "NSPAdd"
  /\ replica' =
       [h \in Hosts |-> [v \in Nodes |-> OnLocalNodes(h, v, NSPAddOn(h, v))]]
  /\ h_pc' = "NumShortestPathsChanges"
  /\ UNCHANGED <<singleVars, owner, edge_host, main_log, output,
                 bitset, h_src, h_i, h_iterations,
                 h_accum, h_todo>>

\* NumShortestPathsChanges::operator() on the replica of v on host h
NumShortestPathsChangesOn(h, v) ==
  LET d == replica[h][v]
  IN  IF d.current_length = infinity THEN d
      ELSE IF d.num_predecessors = 0 /\ d.propogation_flag
           THEN IF d.num_successors # 0
                THEN [d EXCEPT !.propogation_flag = FALSE, !.num_short_paths_flag = TRUE]
                ELSE d
           ELSE IF d.num_predecessors = 0 /\ ~d.num_short_paths_flag
                THEN [d EXCEPT !.propogation_flag = TRUE, !.num_short_paths_flag = TRUE]
                ELSE d

\* NumShortestPathsChanges::go on every host, then iterations++, dga.reduce(),
\* while test
NumShortestPathsChanges_hosts ==
  /\ HostsTurn
  /\ h_pc = "NumShortestPathsChanges"
  /\ replica' =
       [h \in Hosts |-> [v \in Nodes |->
          OnLocalNodes(h, v, NumShortestPathsChangesOn(h, v))]]
  /\ h_iterations' = IF h_accum # 0 THEN h_iterations + 1 ELSE 0
  /\ h_pc' = IF h_accum # 0 THEN "NumShortestPaths" ELSE "DependencyPropogation"
  /\ UNCHANGED <<singleVars, owner, edge_host, main_log, output,
                 bitset, h_src, h_i, h_accum, h_todo>>

\* the vertices on which DependencyPropogation::operator() enters its body on
\* host h
PropogatingOn(h) ==
  {v \in LocalNodesWithEdges(h) :
     replica[h][v].current_length # infinity /\ replica[h][v].propogation_flag}

\* the edges on which DependencyPropogation::operator() does work on host h
DependencyEdgesOn(h) ==
  {e \in LocalEdges(h) :
     /\ e[1] \in PropogatingOn(h)
     /\ Dst(e) # h_src
     /\ OnShortestPathOn(h, e)}

\* the value the operator adds to dst_data.to_add_float on the edge e of host h
ContributionOn(h, e) ==
  RMul(<<replica[h][Dst(e)].num_shortest_paths, replica[h][e[1]].num_shortest_paths>>,
       RInt(1 + RTrunc(replica[h][e[1]].dependency)))

\* top of the do loop on every host: dga.reset(), the operator, then the sync
\* that reduces trim2 and broadcasts trim
DependencyPropogation_hosts ==
  /\ HostsTurn
  /\ h_pc = "DependencyPropogation"
  /\ IF \A h \in Hosts : \A v \in PropogatingOn(h) : replica[h][v].num_successors = 0
     THEN /\ LET pushed ==
                   [h \in Hosts |-> [v \in Nodes |->
                      LET into == SetToSeqE({e \in DependencyEdgesOn(h) : Dst(e) = v})
                      IN  [replica[h][v] EXCEPT
                             !.trim2 = U32Add(@, Len(into)),
                             !.to_add_float =
                                RAdd(@, RSum([k \in 1..Len(into) |->
                                                ContributionOn(h, into[k])])),
                             !.propogation_flag =
                                IF v \in PropogatingOn(h) THEN FALSE ELSE @,
                             !.dep_prop_flag =
                                IF v \in PropogatingOn(h) THEN TRUE ELSE @]]]
                 targets == [h \in Hosts |-> {Dst(e) : e \in DependencyEdgesOn(h)}]
                 marks ==
                   MarkedIn(MarkedIn(bitset, "trim2", targets), "to_add_float", targets)
             IN  /\ replica' = Sync(pushed, marks, "add", "trim2", "trim")
                 /\ bitset' = Cleared(marks, "trim2")
          /\ h_accum' =
               Sum([k \in 1..NumHosts |-> Cardinality(DependencyEdgesOn(k - 1))])
          /\ h_pc' = "DPTrim"
     ELSE /\ h_pc' = "assert_num_successors"
          /\ UNCHANGED <<replica, bitset, h_accum>>
  /\ UNCHANGED <<singleVars, owner, edge_host, main_log, output,
                 h_src, h_i, h_iterations, h_todo>>

\* DPTrim::operator() on the replica of v on host h
DPTrimOn(h, v) ==
  IF replica[h][v].trim2 # 0
  THEN [replica[h][v] EXCEPT !.num_successors = U32Sub(@, replica[h][v].trim2),
                             !.trim = 0]
  ELSE replica[h][v]

\* DPTrim::go on every host, then the sync of to_add_float
DPTrim_hosts ==
  /\ HostsTurn
  /\ h_pc = "DPTrim"
  /\ replica' =
       Sync([h \in Hosts |-> [v \in Nodes |-> OnLocalNodes(h, v, DPTrimOn(h, v))]],
            bitset, "add_float", "to_add_float", "to_add_float")
  /\ bitset' = Cleared(bitset, "to_add_float")
  /\ h_pc' = "DPAdd"
  /\ UNCHANGED <<singleVars, owner, edge_host, main_log, output,
                 h_src, h_i, h_iterations, h_accum,
                 h_todo>>

\* DPAdd::operator() on the replica of v on host h
DPAddOn(h, v) ==
  IF RPos(replica[h][v].to_add_float)
  THEN [replica[h][v] EXCEPT !.dependency = RAdd(@, replica[h][v].to_add_float),
                             !.to_add_float = RZero]
  ELSE replica[h][v]

\* DPAdd::go on every host
DPAdd_hosts ==
  /\ HostsTurn
  /\ h_pc = "DPAdd"
  /\ replica' =
       [h \in Hosts |-> [v \in Nodes |-> OnLocalNodes(h, v, DPAddOn(h, v))]]
  /\ h_pc' = "DependencyPropChanges"
  /\ UNCHANGED <<singleVars, owner, edge_host, main_log, output,
                 bitset, h_src, h_i, h_iterations,
                 h_accum, h_todo>>

\* DependencyPropChanges::operator() on the replica of v on host h
DependencyPropChangesOn(h, v) ==
  LET d == replica[h][v]
  IN  IF /\ v \in LocalNodesWithEdges(h)
         /\ d.current_length # infinity
         /\ d.num_successors = 0 /\ ~d.dep_prop_flag
      THEN [d EXCEPT !.propogation_flag = TRUE, !.dep_prop_flag = TRUE]
      ELSE d

\* DependencyPropChanges::go on every host, then iterations++, dga.reduce(),
\* while test
DependencyPropChanges_hosts ==
  /\ HostsTurn
  /\ h_pc = "DependencyPropChanges"
  /\ replica' =
       [h \in Hosts |-> [v \in Nodes |-> OnLocalNodes(h, v, DependencyPropChangesOn(h, v))]]
  /\ h_iterations' = IF h_accum # 0 THEN h_iterations + 1 ELSE 0
  /\ h_pc' = IF h_accum # 0 THEN "DependencyPropogation" ELSE "BC"
  /\ UNCHANGED <<singleVars, owner, edge_host, main_log, output,
                 bitset, h_src, h_i, h_accum, h_todo>>

\* BC::operator() on the replica of v on host h
BCOn(h, v) ==
  IF RPos(replica[h][v].dependency)
  THEN [replica[h][v] EXCEPT
          !.betweeness_centrality = RAdd(@, replica[h][v].dependency),
          !.dependency = RZero]
  ELSE replica[h][v]

\* the do_all of BC::operator() on every host, then i++
BC_hosts ==
  /\ HostsTurn
  /\ h_pc = "BC"
  /\ replica' =
       [h \in Hosts |-> [v \in Nodes |-> OnLocalNodes(h, v, BCOn(h, v))]]
  /\ h_i' = h_i + 1
  /\ h_pc' = "for"
  /\ UNCHANGED <<singleVars, owner, edge_host, main_log, output,
                 bitset, h_src, h_iterations, h_accum,
                 h_todo>>

(* main after BC::go and Sanity::go have returned *)
\* the first k decimals of r / den for 0 <= r < den, as <<the decimals read
\* as a number, the remainder>>
RECURSIVE Decimals(_, _, _, _)
Decimals(r, den, k, acc) ==
  IF k = 0 THEN <<acc, r>>
  ELSE Decimals((10 * r) % den, den, k - 1, 10 * acc + (10 * r) \div den)

\* sprintf's "%.9f" of a value that is not negative: <<the digits before the
\* point, the nine digits after it>>, rounded to nearest, ties to even
Printf9(x) ==
  LET whole == x[1] \div x[2]
      d == Decimals(x[1] % x[2], x[2], 9, 0)
      up == 2 * d[2] > x[2] \/ (2 * d[2] = x[2] /\ d[1] % 2 = 1)
      frac == IF up THEN d[1] + 1 ELSE d[1]
  IN  IF frac = 1000000000 THEN <<whole + 1, 0>> ELSE <<whole, frac>>

\* (run + 1) != numRuns on every host: getHostBarrier().wait()
HostBarrier_wait_ClearsFirst ==
  /\ h_pc = "run_end"
  /\ bitset' = [h \in Hosts |-> [f \in SyncedFields |-> {}]]
  /\ main_log' = Append(Append(main_log, "bitset_reset"), "getHostBarrier_wait")
  /\ h_pc' = "InitializeGraph"
  /\ UNCHANGED <<singleVars, owner, edge_host, output, replica, h_src, h_i,
                 h_iterations, h_accum, h_todo>>

HostBarrier_wait_hosts ==
  /\ h_pc = "run_end"
  /\ main_log' = Append(main_log, "getHostBarrier_wait")
  /\ h_pc' = "bitset_reset"
  /\ UNCHANGED <<singleVars, owner, edge_host, output, replica, bitset, h_src, h_i,
                 h_iterations, h_accum, h_todo>>

\* reset_num_iter(run + 1), then the reset() of the seven bitsets on every host
bitset_reset_hosts ==
  /\ h_pc = "bitset_reset"
  /\ bitset' = [h \in Hosts |-> [f \in SyncedFields |-> {}]]
  /\ main_log' = Append(main_log, "bitset_reset")
  /\ h_pc' = "InitializeGraph"
  /\ UNCHANGED <<singleVars, owner, edge_host, output, replica, h_src, h_i,
                 h_iterations, h_accum, h_todo>>

\* InitializeGraph::operator() on the replica of v on host h
InitializeGraphOn(h, v) ==
  [replica[h][v] EXCEPT
     !.betweeness_centrality = RZero,
     !.num_shortest_paths = 0,
     !.num_successors = 0,
     !.num_predecessors = 0,
     !.dependency = RZero,
     !.propogation_flag = FALSE]

\* InitializeGraph::go on every host; the for loop of main then starts the
\* next run, which the hosts do not make here
InitializeGraph_hosts ==
  /\ h_pc = "InitializeGraph"
  /\ replica' =
       [h \in Hosts |-> [v \in Nodes |-> OnLocalNodes(h, v, InitializeGraphOn(h, v))]]
  /\ main_log' = Append(main_log, "InitializeGraph")
  /\ h_pc' = "next_run"
  /\ UNCHANGED <<singleVars, owner, edge_host, output, bitset, h_src, h_i,
                 h_iterations, h_accum, h_todo>>

\* (run + 1) == numRuns on every host: the for loop of main ends, and with
\* --verify every host prints the bc of the vertices it owns
printOutput_hosts ==
  /\ h_pc = "run_end"
  /\ \E verify \in BOOLEAN :
       output' =
         IF verify
         THEN {<<v, Printf9(replica[owner[v]][v].betweeness_centrality)>> : v \in Nodes}
         ELSE {}
  /\ h_pc' = "verified"
  /\ UNCHANGED <<singleVars, owner, edge_host, main_log, replica, bitset, h_src, h_i,
                 h_iterations, h_accum, h_todo>>

\* getHostBarrier().wait() on every host, return 0
return_hosts ==
  /\ h_pc = "verified"
  /\ main_log' = Append(main_log, "getHostBarrier_wait")
  /\ h_pc' = "done"
  /\ UNCHANGED <<singleVars, owner, edge_host, output, replica, bitset, h_src, h_i,
                 h_iterations, h_accum, h_todo>>

\* one run of the single host and of the hosts, phase by phase, and what main
\* does on the hosts after it, whether it is the last run or not
NextHosts ==
  \/ SingleHostTurn /\ BC_go
  \/ SingleHostTurn /\ NextSource
  \/ SingleHostTurn /\ InitializeIteration
  \/ SingleHostTurn /\ SSSP_round
  \/ SingleHostTurn /\ SSSP_operator
  \/ SingleHostTurn /\ SSSP_while
  \/ SingleHostTurn /\ PredAndSucc
  \/ SingleHostTurn /\ NumShortestPaths
  \/ SingleHostTurn /\ NSPTrim
  \/ SingleHostTurn /\ NSPAdd
  \/ SingleHostTurn /\ NumShortestPathsChanges
  \/ SingleHostTurn /\ DependencyPropogation
  \/ SingleHostTurn /\ DPTrim
  \/ SingleHostTurn /\ DPAdd
  \/ SingleHostTurn /\ DependencyPropChanges
  \/ SingleHostTurn /\ BC
  \/ SingleHostTurn /\ EndRun
  \/ BC_go_hosts
  \/ NextSource_hosts
  \/ InitializeIteration_hosts
  \/ SSSP_round_hosts
  \/ SSSP_operator_hosts
  \/ SSSP_while_hosts
  \/ PredAndSucc_hosts
  \/ NumShortestPaths_hosts
  \/ NSPTrim_hosts
  \/ NSPAdd_hosts
  \/ NumShortestPathsChanges_hosts
  \/ DependencyPropogation_hosts
  \/ DPTrim_hosts
  \/ DPAdd_hosts
  \/ DependencyPropChanges_hosts
  \/ BC_hosts
  \/ EndRun_hosts
  \/ HostBarrier_wait_hosts
  \/ bitset_reset_hosts
  \/ InitializeGraph_hosts
  \/ printOutput_hosts
  \/ return_hosts

SpecHosts == InitHosts /\ [][NextHosts]_vars

(* ------------------- StatManager (libruntime, Support.cpp) ------------------- *)
\* what no call of the StatManager writes
bcVars == <<inputVars, sanityVars, workVars, hostVars, nodeVars, driverVars>>

\* the nodes of the set S that hold str: what symbols.find can return
NodesOf(S, str) == {a \in S : heap[a] = str}

\* std::lower_bound over v[first], ..., v[first + count - 1] with the
\* comparison s1.first < s2: a binary search
RECURSIVE LowerBound(_, _, _, _)
LowerBound(v, s, first, count) ==
  IF count = 0 THEN first
  ELSE LET step == count \div 2
           it == first + step
       IN  IF v[it][1] < s THEN LowerBound(v, s, it + 1, count - (step + 1))
           ELSE LowerBound(v, s, first, step)

\* addInstanceNum without its std::sort
SortInstances_None(v) == v

\* std::sort(loopInstances.begin(), loopInstances.end()) by s1.first < s2.first
RECURSIVE SortInstances(_)
SortInstances(v) ==
  IF Len(v) <= 1 THEN v
  ELSE LET m == CHOOSE k \in 1..Len(v) : \A j \in 1..Len(v) : v[k][1] <= v[j][1]
       IN  <<v[m]>> \o SortInstances([j \in 1..(Len(v) - 1) |->
                                         IF j < m THEN v[j] ELSE v[j + 1]])

\* getInstanceNum once getSymbol has returned s
InstanceNumOf(s) ==
  LET ii == LowerBound(loopInstances, s, 1, Len(loopInstances))
  IN  IF ii = Len(loopInstances) + 1 \/ s # loopInstances[ii][1] THEN 0
      ELSE loopInstances[ii][2]

\* addInstanceNum once getOrInsertSymbol has returned s
AddInstanceNum(s) ==
  LET ii == LowerBound(loopInstances, s, 1, Len(loopInstances))
  IN  IF ii = Len(loopInstances) + 1 \/ s # loopInstances[ii][1]
      THEN SortInstances(Append(loopInstances, <<s, 0>>))
      ELSE [loopInstances EXCEPT ![ii] = <<s, loopInstances[ii][2] + 1>>]

\* Galois::Runtime::reportLoopInstance(loopname): beginLoopInstance,
\* addInstanceNum. The thread that starts a loop calls it before the threads
\* of the loop run: no other call is under way
reportLoopInstance ==
  /\ sm_calls < CallBound
  /\ \A t \in Threads : sm_thread[t].pc = "idle"
  /\ \E str \in LoopNames :
       /\ IF NodesOf(symbols, str) # {}
          THEN /\ \E s \in NodesOf(symbols, str) : loopInstances' = AddInstanceNum(s)
               /\ UNCHANGED <<heap, symbols>>
          ELSE \E s \in Addrs :
                 /\ heap[s] = ""
                 /\ heap' = [heap EXCEPT ![s] = str]
                 /\ symbols' = symbols \cup {s}
                 /\ loopInstances' = AddInstanceNum(s)
       /\ begun' = [begun EXCEPT ![str] = begun[str] + 1]
  /\ sm_calls' = sm_calls + 1
  /\ UNCHANGED <<bcVars, activeThreads, Stats, sm_thread, reported>>

\* Galois::Runtime::reportStat(loopname, category, value) is called by a
\* thread: addToStat is entered, and its call of insertStat has three
\* arguments to evaluate, in an order the compiler chooses
reportStat ==
  /\ sm_calls < CallBound
  /\ \E t \in Threads, loop \in LoopNames, category \in Categories :
       /\ sm_thread[t].pc = "idle"
       /\ sm_thread' =
            [sm_thread EXCEPT ![t] =
               [IdleThread EXCEPT !.pc = "addToStat", !.kind = "value",
                                  !.loop = loop, !.category = category,
                                  !.args = {"loop", "category", "instance"},
                                  !.x = t]]
       /\ reported' =
            [reported EXCEPT ![<<t, loop, category>>] = reported[<<t, loop, category>>] + 1]
  /\ sm_calls' = sm_calls + 1
  /\ UNCHANGED <<bcVars, activeThreads, heap, symbols, loopInstances, Stats, begun>>

\* Galois::Runtime::reportStat(Galois::Statistic*) is called by a thread:
\* addToStat(Statistic*) starts its loop over the active threads at x = 0
reportStat_Statistic ==
  /\ sm_calls < CallBound
  /\ \E t \in Threads, loop \in LoopNames, category \in Categories :
       /\ sm_thread[t].pc = "idle"
       /\ sm_thread' =
            [sm_thread EXCEPT ![t] =
               [IdleThread EXCEPT !.pc = "addToStat", !.kind = "Statistic",
                                  !.loop = loop, !.category = category,
                                  !.args = {"loop", "category"}]]
       /\ reported' =
            [k \in DOMAIN reported |->
               IF k[1] \in Threads /\ k[2] = loop /\ k[3] = category
               THEN reported[k] + 1 ELSE reported[k]]
  /\ sm_calls' = sm_calls + 1
  /\ UNCHANGED <<bcVars, activeThreads, heap, symbols, loopInstances, Stats, begun>>

\* getOrInsertSymbol is entered for one of the two names: symbols.insert
\* starts to search the tree as it is now. No lock is taken
getOrInsertSymbol ==
  /\ \E t \in Threads, a \in {"loop", "category"} :
       /\ sm_thread[t].pc = "addToStat"
       /\ a \in sm_thread[t].args
       /\ sm_thread' =
            [sm_thread EXCEPT ![t].pc = "insert", ![t].cur = a, ![t].snap = symbols]
  /\ UNCHANGED <<bcVars, activeThreads, heap, symbols, loopInstances, Stats, sm_calls,
                 begun, reported>>

\* symbols.insert ends and getOrInsertSymbol returns the address of the
\* node. A node found by the search is returned; otherwise a node is
\* allocated and linked into the tree the search saw. When another thread
\* has changed the tree since, the two inserts have raced: the tree keeps
\* both nodes or loses what the other thread linked
symbols_insert ==
  /\ \E t \in Threads :
       /\ sm_thread[t].pc = "insert"
       /\ LET str == IF sm_thread[t].cur = "loop" THEN sm_thread[t].loop
                     ELSE sm_thread[t].category
              found == NodesOf(sm_thread[t].snap, str)
              Returned(s) ==
                [sm_thread EXCEPT
                   ![t].pc = "addToStat",
                   ![t].args = sm_thread[t].args \ {sm_thread[t].cur},
                   ![t].lp = IF sm_thread[t].cur = "loop" THEN s ELSE sm_thread[t].lp,
                   ![t].cp = IF sm_thread[t].cur = "category" THEN s
                             ELSE sm_thread[t].cp,
                   ![t].cur = "", ![t].snap = {}]
          IN  IF found # {}
              THEN /\ \E s \in found : sm_thread' = Returned(s)
                   /\ UNCHANGED <<heap, symbols>>
              ELSE \E s \in Addrs :
                     /\ heap[s] = ""
                     /\ heap' = [heap EXCEPT ![s] = str]
                     /\ \/ symbols' = symbols \cup {s}
                        \/ /\ symbols # sm_thread[t].snap
                           /\ symbols' = sm_thread[t].snap \cup {s}
                     /\ sm_thread' = Returned(s)
  /\ UNCHANGED <<bcVars, activeThreads, loopInstances, Stats, sm_calls, begun, reported>>

\* getInstanceNum(loop) is evaluated: getSymbol, then the lower_bound over
\* loopInstances
getInstanceNum ==
  /\ \E t \in Threads :
       /\ sm_thread[t].pc = "addToStat"
       /\ "instance" \in sm_thread[t].args
       /\ LET found == NodesOf(symbols, sm_thread[t].loop)
          IN  \E n \in IF found = {} THEN {0} ELSE {InstanceNumOf(s) : s \in found} :
                sm_thread' =
                  [sm_thread EXCEPT ![t].inst = n,
                                    ![t].args = sm_thread[t].args \ {"instance"}]
  /\ UNCHANGED <<bcVars, activeThreads, heap, symbols, loopInstances, Stats, sm_calls,
                 begun, reported>>

\* the arguments are evaluated and insertStat is called on the RecordList
\* of thread x (getLocal, or getRemote(x)): MAKE_LOCK_GUARD(lock) takes the
\* list's lock once it is free
insertStat_lock ==
  /\ \E t \in Threads :
       /\ sm_thread[t].pc = "addToStat"
       /\ sm_thread[t].args = {}
       /\ Stats[sm_thread[t].x].lock = -1
       /\ Stats' = [Stats EXCEPT ![sm_thread[t].x].lock = t]
       /\ sm_thread' = [sm_thread EXCEPT ![t].pc = "insertStat"]
  /\ UNCHANGED <<bcVars, activeThreads, heap, symbols, loopInstances, sm_calls, begun,
                 reported>>

\* stats.push_back(RecordTy(loop, category, instance, val)), every stat being
\* reported with the value 1 here; the lock guard
\* releases the lock, insertStat returns; addToStat(Statistic*) goes on with
\* the next thread's list, the other calls return
insertStat ==
  /\ \E t \in Threads :
       /\ sm_thread[t].pc = "insertStat"
       /\ Stats' =
            [Stats EXCEPT
               ![sm_thread[t].x] =
                  [lock |-> -1,
                   stats |-> Append(Stats[sm_thread[t].x].stats,
                                    [loop |-> sm_thread[t].lp,
                                     category |-> sm_thread[t].cp,
                                     instance |-> sm_thread[t].inst,
                                     value |-> 1])]]
       /\ sm_thread' =
            [sm_thread EXCEPT
               ![t] = IF sm_thread[t].kind = "Statistic"
                         /\ sm_thread[t].x + 1 < activeThreads
                      THEN [sm_thread[t] EXCEPT !.pc = "addToStat",
                                                !.args = {"loop", "category"},
                                                !.x = sm_thread[t].x + 1]
                      ELSE IdleThread]
  /\ UNCHANGED <<bcVars, activeThreads, heap, symbols, loopInstances, sm_calls, begun,
                 reported>>

\* the calls into the StatManager, step by step
NextStatManager ==
  \/ reportLoopInstance
  \/ reportStat
  \/ reportStat_Statistic
  \/ getOrInsertSymbol
  \/ symbols_insert
  \/ getInstanceNum
  \/ insertStat_lock
  \/ insertStat

\* a process in which the StatManager is built and no graph is loaded
NoGraph ==
  /\ numNodes = 0
  /\ adj = << >>
  /\ singleSourceBC = FALSE
  /\ startSource = 0
  /\ maxIterations = DefaultMaxIterations
  /\ numberOfSources = 0
  /\ random_sources = {}
  /\ NodeDataAtStart
  /\ SanityAtStart
  /\ WorkAtStart
  /\ SingleHost
  /\ current_src_node = 0
  /\ pc = "BC_go"
  /\ run = 0
  /\ i = 0
  /\ iterations = 0
  /\ accum = 0
  /\ todo = {}
  /\ bc_of_run = << >>
  /\ StatManagerBuilt

\* the calls are made one after the other, by the main thread
InitStatSerial ==
  /\ NoGraph
  /\ activeThreads = 1

SpecStatSerial == InitStatSerial /\ [][NextStatManager]_vars

\* the calls are made by the threads of a parallel loop
InitStatThreads ==
  /\ NoGraph
  /\ activeThreads = NumThreads

SpecStatThreads == InitStatThreads /\ [][NextStatManager]_vars

(* ------------------------- reference values -------------------------- *)
\* hop distances from src, level by level: v can take 1 + dist(t) over a
\* stored edge (v,t)
RECURSIVE RefDistFrom(_, _, _, _)
RefDistFrom(front, seen, k, f) ==
  IF front = {} THEN f
  ELSE LET nxt == {v \in Nodes \ seen : \E j \in EdgeIdx(v) : adj[v][j] \in front}
       IN  RefDistFrom(nxt, seen \cup nxt, k + 1,
                       [v \in Nodes |-> IF v \in nxt THEN k + 1 ELSE f[v]])

RefDist(src) ==
  RefDistFrom({src}, {src}, 0, [v \in Nodes |-> IF v = src THEN 0 ELSE infinity])

\* the stored edge e = (v,u) is an edge of the shortest-path DAG of the
\* distances d: u is a predecessor of v
DagEdge(d, e) == d[e[1]] # infinity /\ d[Dst(e)] # infinity /\ d[Dst(e)] + 1 = d[e[1]]

\* number of shortest paths from src to v
RECURSIVE RefSigma(_, _, _)
RefSigma(d, src, v) ==
  IF v = src THEN 1
  ELSE Sum([k \in EdgeIdx(v) |->
              IF DagEdge(d, <<v, k>>) THEN RefSigma(d, src, adj[v][k]) ELSE 0])

\* Brandes' dependency of src on v
RECURSIVE RefDelta(_, _, _)
RefDelta(d, src, v) ==
  LET succ == SetToSeqE({e \in AllEdges : Dst(e) = v /\ DagEdge(d, e)})
  IN  RSum([k \in 1..Len(succ) |->
              RMul(Rat(RefSigma(d, src, v), RefSigma(d, src, succ[k][1])),
                   RAdd(RInt(1), RefDelta(d, src, succ[k][1])))])

\* betweenness centrality of v by its definition: the sum over the pairs
\* s # v # t of sigma_st(v) / sigma_st
PairShare(s, t, v) ==
  LET ds == RefDist(s)
      dv == RefDist(v)
  IN  IF /\ ds[t] # infinity /\ ds[v] # infinity /\ dv[t] # infinity
         /\ ds[v] + dv[t] = ds[t]
      THEN Rat(RefSigma(ds, s, v) * RefSigma(dv, v, t), RefSigma(ds, s, t))
      ELSE RZero

RefBC(v) ==
  LET pairs == SetToSeqE({p \in Nodes \X Nodes : p[1] # v /\ p[2] # v /\ p[1] # p[2]})
  IN  RSum([k \in 1..Len(pairs) |-> PairShare(pairs[k][1], pairs[k][2], v)])

(* ------------------------------- claims ------------------------------ *)
\* positions of the driver between two phases
AfterSSSP == pc = "PredAndSucc"
AfterPredAndSucc == pc = "NumShortestPaths" /\ iterations = 0
AfterNumShortestPaths == pc = "DependencyPropogation" /\ iterations = 0
AfterDependencyPropogation == pc = "BC"
AfterLastSource == pc = "run_end"

SumOver(f) == Sum([k \in 1..numNodes |-> f[k - 1]])

\* C1: in all-sources mode, once the last source is done, bc(v) is the exact
\* betweenness centrality of v, for every vertex v.
C1_ExactBC ==
  (AfterLastSource /\ ~singleSourceBC) =>
    \A v \in Nodes : betweeness_centrality[v] = RefBC(v)

\* C2: two consecutive runs of BC::go over the same graph and the same
\* sources end with the same bc(v) for every vertex v.
C2_RunsAgree ==
  Len(bc_of_run) >= 2 => bc_of_run[1] = bc_of_run[2]

\* C3: within a run no step lowers bc(v), and only the BC fold changes it.
C3_BCMonotone ==
  [][pc # "run_end" =>
       /\ \A v \in Nodes : RLeq(betweeness_centrality[v], betweeness_centrality'[v])
       /\ betweeness_centrality' # betweeness_centrality => pc = "BC"]_vars

\* two sources have been folded in and some vertex has a positive bc
C3_Witness ==
  /\ pc = "for" /\ i >= 2
  /\ \E v \in Nodes : RPos(betweeness_centrality[v])

\* C4: when the BFS phase ends, dist(source) = 0, dist(v) is the hop distance
\* of v over the relaxed edges (INF exactly when there is no path), and every
\* reached vertex but the source has a neighbour one hop closer.
C4_BFSDistances ==
  AfterSSSP =>
    /\ current_length[current_src_node] = 0
    /\ current_length = RefDist(current_src_node)
    /\ \A v \in Nodes :
         (current_length[v] # infinity /\ v # current_src_node) =>
           \E k \in EdgeIdx(v) : current_length[adj[v][k]] + 1 = current_length[v]

\* the BFS has ended with a vertex two hops away and a vertex it did not reach
C4_Witness ==
  /\ AfterSSSP
  /\ \E v \in Nodes : current_length[v] = 2
  /\ \E v \in Nodes : current_length[v] = infinity

\* C5: after the Pred/Succ superstep npred(v) counts the edges (v,t) with
\* dist(t) + 1 = dist(v), nsucc(v) the edges (s,v) with dist(v) + 1 = dist(s)
\* and s reached, parallel edges counted each; both sums are the number of
\* edges of the shortest-path DAG.
C5_PredSuccCounts ==
  AfterPredAndSucc =>
    /\ \A v \in Nodes :
         /\ num_predecessors[v] =
              Cardinality({e \in AllEdges :
                             e[1] = v /\ current_length[Dst(e)] + 1 = current_length[v]})
         /\ num_successors[v] =
              Cardinality({e \in AllEdges :
                             /\ Dst(e) = v
                             /\ current_length[v] + 1 = current_length[e[1]]
                             /\ current_length[e[1]] # infinity})
    /\ SumOver(num_predecessors) = SumOver(num_successors)
    /\ SumOver(num_predecessors) =
         Cardinality({e \in AllEdges : DagEdge(RefDist(current_src_node), e)})

\* a source after the first one has been counted, with a vertex of two
\* predecessor edges and a vertex of two successor edges
C5_Witness ==
  /\ AfterPredAndSucc /\ i >= 1
  /\ \E v \in Nodes : num_predecessors[v] = 2
  /\ \E v \in Nodes : num_successors[v] = 2

\* C6: when the sigma-phase ends, sigma(source) = 1 and sigma(v) is the number
\* of shortest paths from the source to v (0 for an unreached vertex).
C6_SigmaCounts ==
  AfterNumShortestPaths =>
    /\ num_shortest_paths[current_src_node] = 1
    /\ \A v \in Nodes :
         num_shortest_paths[v] =
           RefSigma(RefDist(current_src_node), current_src_node, v)

\* the sigma-phase has ended with a vertex two hops away that has two
\* shortest paths
C6_Witness ==
  /\ AfterNumShortestPaths
  /\ \E v \in Nodes : current_length[v] = 2 /\ num_shortest_paths[v] = 2

\* C7: when the delta-phase ends, delta(v) of every reached vertex but the
\* source is Brandes' dependency, the sum over the DAG successors w of v of
\* (sigma(v) / sigma(w)) * (1 + delta(w)).
C7_BrandesDependency ==
  AfterDependencyPropogation =>
    \A v \in Nodes :
      (current_length[v] # infinity /\ v # current_src_node) =>
        dependency[v] = RefDelta(RefDist(current_src_node), current_src_node, v)

\* C8: num_predecessors is 0 on every vertex whenever the per-source reset
\* runs, so its assertion never fires.
C8_NoPredecessorsAtReset ==
  /\ pc = "InitializeIteration" => \A v \in Nodes : num_predecessors[v] = 0
  /\ pc # "assert_num_predecessors"

\* the reset is about to run after a source that left a vertex with two
\* shortest paths, whose predecessor count had to be driven back to 0
C8_Witness ==
  /\ pc = "InitializeIteration" /\ i >= 1
  /\ \E v \in Nodes : num_shortest_paths[v] >= 2

\* C9: when the delta-phase ends, nsucc(v) = 0 for every reached vertex, the
\* source included.
C9_NoSuccessorsLeft ==
  AfterDependencyPropogation =>
    \A v \in Nodes : current_length[v] # infinity => num_successors[v] = 0

\* C10: at every delta-phase propagate superstep every reached vertex whose
\* prop_flag is set has nsucc = 0, so the assertion of the operator never fires.
C10_FlaggedAreLeaves ==
  /\ pc = "DependencyPropogation" =>
       \A s \in Nodes :
         (current_length[s] # infinity /\ propogation_flag[s]) => num_successors[s] = 0
  /\ pc # "assert_num_successors"

\* a later round of the delta-phase of a second run is about to propagate
\* from a vertex that still carries trim2 of earlier rounds
C10_Witness ==
  /\ pc = "DependencyPropogation" /\ iterations >= 1 /\ run >= 1
  /\ \E s \in nodesWithEdges :
       current_length[s] # infinity /\ propogation_flag[s] /\ trim2[s] # 0

\* the run is on the diamond 0 -> {1,2} -> 3 with the single source 0
OnDiamondFromZero ==
  numNodes = 4 /\ adj = Diamond.adj /\ singleSourceBC /\ startSource = 0

\* C11: on the diamond with the single source 0, sigma = [1,1,1,2] when the
\* sigma-phase ends, delta(1) = delta(2) = 1/2 and delta(3) = 0 when the
\* delta-phase ends, and bc = [0, 1/2, 1/2, 0] once the BC fold is done.
C11_Diamond ==
  OnDiamondFromZero =>
    /\ AfterNumShortestPaths =>
         num_shortest_paths = [v \in Nodes |-> IF v = 3 THEN 2 ELSE 1]
    /\ AfterDependencyPropogation =>
         /\ dependency[1] = Rat(1, 2) /\ dependency[2] = Rat(1, 2)
         /\ dependency[3] = RZero
    /\ (pc \in {"for", "run_end", "done"} /\ i = 1) =>
         betweeness_centrality =
           [v \in Nodes |-> IF v \in {1, 2} THEN Rat(1, 2) ELSE RZero]

\* the second run over the diamond has folded its source in
C11_Witness ==
  /\ OnDiamondFromZero /\ pc = "run_end" /\ run = 1
  /\ betweeness_centrality[1] = Rat(1, 2)

\* the driver is between the end of the BFS and the end of the BC fold
AfterBFSOfSource ==
  pc \in {"PredAndSucc", "NumShortestPaths", "NSPTrim", "NSPAdd",
          "NumShortestPathsChanges", "DependencyPropogation", "DPTrim", "DPAdd",
          "DependencyPropChanges", "BC"}

\* C12: a vertex the BFS left at INF is inert until the source is folded in:
\* sigma, npred, nsucc, delta and prop_flag keep their reset values, no edge
\* of the vertex is one an operator does work on, and no step changes its bc.
C12_UnreachedInert ==
  [][AfterBFSOfSource =>
       \A v \in Nodes :
         current_length[v] = infinity =>
           /\ num_shortest_paths[v] = 0 /\ num_shortest_paths'[v] = 0
           /\ num_predecessors[v] = 0 /\ num_predecessors'[v] = 0
           /\ num_successors[v] = 0 /\ num_successors'[v] = 0
           /\ dependency[v] = RZero /\ dependency'[v] = RZero
           /\ ~propogation_flag[v] /\ ~propogation_flag'[v]
           /\ \A e \in PredAndSuccEdges \cup NumShortestPathsEdges
                         \cup DependencyEdges : e[1] # v
           /\ betweeness_centrality'[v] = betweeness_centrality[v]]_vars

\* the stored edges that are self-loops
SelfLoops == {e \in AllEdges : Dst(e) = e[1]}

\* the edge loop of the BFS operator over the edges of src that are not
\* self-loops
RECURSIVE SSSPProperEdges(_, _, _, _)
SSSPProperEdges(src, k, len, cnt) ==
  IF k > Len(adj[src]) THEN <<len, cnt>>
  ELSE IF adj[src][k] = src THEN SSSPProperEdges(src, k + 1, len, cnt)
  ELSE IF U32Less(U32Add(1, current_length[adj[src][k]]), len)
       THEN SSSPProperEdges(src, k + 1, U32Add(1, current_length[adj[src][k]]),
                            cnt + 1)
       ELSE SSSPProperEdges(src, k + 1, len, cnt)

\* the graph is the path 0 -> 1 -> 2, with or without the self-loops
OnPath3 ==
  numNodes = 3 /\ adj \in {LoopedPath.adj, MkGraph(3, <<<<1, 0>>, <<2, 1>>>>).adj}

\* C13: a self-loop is never an edge an operator does work on, and the BFS
\* operator leaves a vertex with the distance and the work count it gets
\* from its other edges alone; on the path 0 -> 1 -> 2 every run ends with
\* the same bc whether each vertex carries a self-loop or not.
C13_SelfLoopsIgnored ==
  [][/\ \A e \in SelfLoops :
          e \notin PredAndSuccEdges \cup NumShortestPathsEdges \cup DependencyEdges
     /\ \A src \in todo \ todo' :
          /\ current_length'[src] =
               SSSPProperEdges(src, 1, current_length[src], 0)[1]
          /\ accum' =
               U32Add(accum, SSSPProperEdges(src, 1, current_length[src], 0)[2])
     /\ (OnPath3 /\ pc' = "run_end") =>
          betweeness_centrality' =
            [v \in Nodes |->
               IF v = 1 /\ (~singleSourceBC \/ startSource = 0) THEN RInt(1)
               ELSE RZero]]_vars

\* a run over the path with the self-loops has ended with bc(1) = 1
C13_Witness ==
  /\ adj = LoopedPath.adj /\ pc = "run_end"
  /\ betweeness_centrality[1] = RInt(1)

\* C14: the per-source reset leaves every vertex with npred = 0, nsucc = 0,
\* both done flags false and (dist, sigma, prop_flag) = (0, 1, true) on the
\* current source, (INF, 0, false) elsewhere, and does not change bc.
C14_ResetValues ==
  [][pc = "InitializeIteration" =>
       /\ \A v \in Nodes :
            /\ num_predecessors'[v] = 0 /\ num_successors'[v] = 0
            /\ ~num_short_paths_flag'[v] /\ ~dep_prop_flag'[v]
            /\ <<current_length'[v], num_shortest_paths'[v], propogation_flag'[v]>> =
                 IF v = current_src_node THEN <<0, 1, TRUE>>
                 ELSE <<infinity, 0, FALSE>>
       /\ betweeness_centrality' = betweeness_centrality]_vars

\* the reset of a later source has run over a vertex with a positive bc, after
\* a source whose delta-phase did work
C14_Witness ==
  /\ pc = "SSSP" /\ iterations = 0 /\ i >= 1
  /\ \E v \in Nodes : RPos(betweeness_centrality[v])
  /\ \E v \in Nodes : trim2[v] # 0

\* the driver is inside a round of the BFS, the sigma-phase or the delta-phase
\* loop: round number iterations + 1 is being executed
InsideRound ==
  pc \in {"SSSP_do_all", "NSPTrim", "NSPAdd", "NumShortestPathsChanges",
          "DPTrim", "DPAdd", "DependencyPropChanges"}

\* C15: no phase loop executes more than maxIterations rounds: the round a
\* loop is executing is never round maxIterations + 1 or later.
C15_RoundsCapped ==
  InsideRound => iterations < maxIterations

\* C16: with a start source that is no vertex (srcNodeId >= N) the program
\* fails at startup: no run is entered, no phase runs, main does not return 0
\* and bc stays as it was.
C16_BadSourceRejected ==
  startSource >= numNodes =>
    /\ pc \in {"main", "while_sources"}
    /\ betweeness_centrality = [v \in Nodes |-> RZero]

\* the sources of a run without sampling, in the order the claim gives them
ExpectedSources ==
  IF singleSourceBC THEN <<startSource>> ELSE [k \in 1..numNodes |-> k - 1]

\* C17: without sampling the driver takes its sources in the order
\* <<startSource>> (single source) or 0, 1, ..., N-1 (all sources): the i-th
\* pass of the for loop takes the i-th of them, i grows by one with each BC
\* fold, the run ends after the last of them, and the current source changes
\* nowhere else.
C17_SourceSequence ==
  [][(singleSourceBC \/ numberOfSources = 0) =>
       /\ (pc = "for" /\ pc' = "InitializeIteration") =>
            /\ i < Len(ExpectedSources)
            /\ current_src_node' = ExpectedSources[i + 1]
       /\ (pc = "for" /\ pc' = "run_end") => i = Len(ExpectedSources)
       /\ i' # i => \/ pc = "BC" /\ i' = i + 1
                    \/ pc = "BC_go" /\ i' = 0
       /\ current_src_node' # current_src_node => pc = "for"]_vars

\* the second all-sources run over four vertices has ended with its last
\* source, vertex 3
C17_Witness ==
  /\ ~singleSourceBC /\ numberOfSources = 0 /\ numNodes = 4
  /\ pc = "run_end" /\ run = 1 /\ i = 4 /\ current_src_node = 3

\* sampled mode: --numOfSources=k with k >= 1 and no --singleSource
Sampled == ~singleSourceBC /\ numberOfSources # 0

\* C18: in sampled mode the construction of the source set can always go on
\* until it ends, it ends with exactly numberOfSources distinct ids,
\* startSource and vertices of the graph, and the driver takes exactly these,
\* in ascending order, one pass each.
C18_SampledSources ==
  Sampled =>
    /\ (pc = "while_sources" /\ Cardinality(random_sources) < numberOfSources) =>
         \E r \in Nodes : r \notin random_sources
    /\ pc \notin {"main", "while_sources"} =>
         /\ Cardinality(random_sources) = numberOfSources
         /\ startSource \in random_sources
         /\ random_sources \ {startSource} \subseteq Nodes
    /\ pc \notin {"main", "while_sources", "BC_go", "for", "run_end", "done"} =>
         /\ i < numberOfSources
         /\ current_src_node \in random_sources
         /\ Cardinality({y \in random_sources : y < current_src_node}) = i
    /\ pc = "run_end" => i = numberOfSources

\* C19: for every source the phases follow one another in the order reset,
\* BFS, Pred/Succ, sigma-phase, delta-phase, BC fold; a loop phase is left
\* only at the end of a round that did no work; the source and the loop
\* counter change only between the BC fold of one source and the reset of
\* the next.
C19_PhaseOrder ==
  [][/\ PhaseAt(pc') \in
          IF PhaseAt(pc) = 6 THEN {0}
          ELSE IF PhaseAt(pc) = 0 THEN {0, 1}
          ELSE {PhaseAt(pc), PhaseAt(pc) + 1}
     /\ (PhaseAt(pc) = 2 /\ PhaseAt(pc') = 3) => (todo = {} /\ accum = 0)
     /\ (PhaseAt(pc) = 4 /\ PhaseAt(pc') = 5) =>
          (pc = "NumShortestPathsChanges" /\ accum = 0)
     /\ (PhaseAt(pc) = 5 /\ PhaseAt(pc') = 6) =>
          (pc = "DependencyPropChanges" /\ accum = 0)
     /\ PhaseAt(pc) \in 1..5 => i' = i
     /\ PhaseAt(pc) # 0 => current_src_node' = current_src_node]_vars

\* in the second run a later source is about to be folded in, after a
\* delta-phase that gave some vertex a dependency
C19_Witness ==
  /\ pc = "BC" /\ i >= 1 /\ run = 1
  /\ \E v \in Nodes : RPos(dependency[v])

\* the driver is in the BFS phase
InBFS == pc \in {"SSSP", "SSSP_do_all"}

\* C20: the BFS phase terminates. Every update of an application of the BFS
\* operator strictly lowers the distance of its vertex and is counted, every
\* distance stays within 0..INF, a round is followed by another one exactly
\* when it counted an update, the loop runs at most N rounds, and once
\* entered the phase is left for the Pred/Succ phase.
C20_BFSTerminates ==
  /\ [][InBFS =>
          /\ \A v \in Nodes :
               current_length'[v] # current_length[v] =>
                 U32Less(current_length'[v], current_length[v])
          /\ (accum' # accum /\ pc # "SSSP") <=> current_length' # current_length
          /\ pc = "SSSP" => accum' = 0
          /\ (pc = "SSSP_do_all" /\ pc' # pc) =>
               (pc' = "PredAndSucc" <=> accum = 0)]_vars
  /\ [](InBFS =>
          /\ \A v \in Nodes : current_length[v] \in 0..infinity
          /\ iterations < numNodes)
  /\ (pc = "SSSP") ~> (pc = "PredAndSucc")

\* a BFS that needed three rounds that changed a distance has ended
C20_Witness ==
  /\ pc = "PredAndSucc"
  /\ \E v \in Nodes : current_length[v] = 3

\* the number of vertices that still wait for a predecessor
Waiting(np) == Cardinality({v \in Nodes : np[v] # 0})

\* C21: the sigma-phase terminates. A round that marked work leaves fewer
\* vertices with npred > 0 than it found, a round that marked none changes
\* no npred, the loop runs at most N rounds after its first, and once
\* entered the phase is left for the delta-phase.
C21_SigmaTerminates ==
  /\ [][/\ pc = "NSPTrim" =>
             IF accum # 0
             THEN Waiting(num_predecessors') < Waiting(num_predecessors)
             ELSE num_predecessors' = num_predecessors
        /\ pc \in {"NumShortestPaths", "NSPAdd", "NumShortestPathsChanges"} =>
             num_predecessors' = num_predecessors
        /\ (pc = "NumShortestPathsChanges" /\ pc' = "NumShortestPaths") => accum # 0]_vars
  /\ [](pc \in {"NumShortestPaths", "NSPTrim", "NSPAdd", "NumShortestPathsChanges"} =>
          iterations <= numNodes)
  /\ (pc = "NumShortestPaths") ~> (pc = "DependencyPropogation")

\* a later round of the sigma-phase is about to trim a vertex with two
\* predecessors that became ready in the round before
C21_Witness ==
  /\ pc = "NSPTrim" /\ iterations >= 1
  /\ \E v \in Nodes : trim[v] = 2 /\ num_predecessors[v] = 2

\* the largest and the smallest of the values bc(v), and their sum
MaxBC ==
  CHOOSE x \in {betweeness_centrality[v] : v \in Nodes} :
    \A v \in Nodes : RLeq(betweeness_centrality[v], x)
MinBC ==
  CHOOSE x \in {betweeness_centrality[v] : v \in Nodes} :
    \A v \in Nodes : RLeq(x, betweeness_centrality[v])
SumBC == RSum([k \in 1..numNodes |-> betweeness_centrality[k - 1]])

\* C22: the values Sanity reports after a run are the maximum, the minimum
\* and the sum of bc(v) over all vertices, whatever the interleaving of the
\* workers of its do_all.
C22_SanityValues ==
  pc = "Sanity_end" =>
    /\ current_max = MaxBC
    /\ current_min = MinBC
    /\ DGAccumulator_sum = SumBC

\* (sigma(t) / sigma(s)) * (1 + delta(s)) on the stored edge e = (s, t), with
\* the whole of delta(s)
FullContribution(e) ==
  RMul(Rat(num_shortest_paths[Dst(e)], num_shortest_paths[e[1]]),
       RAdd(RInt(1), dependency[e[1]]))

\* C24: the propagate step of the delta-phase adds to to_add_f(t), for every
\* edge it works on from a flagged vertex s to a vertex t that is not the
\* source, exactly (sigma(t) / sigma(s)) * (1 + delta(s)), fractional part of
\* delta(s) included.
C24_FullDependency ==
  [][(pc = "DependencyPropogation" /\ pc' = "DPTrim") =>
       \A t \in Nodes :
         to_add_float'[t] =
           LET work == SetToSeqE({e \in DependencyEdges : Dst(e) = t})
           IN  RAdd(to_add_float[t],
                    RSum([k \in 1..Len(work) |-> FullContribution(work[k])]))]_vars

\* the four per-vertex delta buffers
TrimEmpty == \A v \in Nodes : trim[v] = 0
ToAddEmpty == \A v \in Nodes : to_add[v] = 0
Trim2Empty == \A v \in Nodes : trim2[v] = 0
ToAddFloatEmpty == \A v \in Nodes : to_add_float[v] = RZero

\* C25: every delta buffer is empty once it has been applied: trim after the
\* sigma-phase trim, to_add after the sigma-phase add, trim2 after the
\* delta-phase trim and to_add_f after the delta-phase add; every round and
\* every source iteration starts with the four buffers at 0, so that a round's
\* trim2 counts that round's edges only.
C25_BuffersEmptied ==
  /\ [](/\ pc = "NSPAdd" => TrimEmpty
        /\ pc = "NumShortestPathsChanges" => TrimEmpty /\ ToAddEmpty
        /\ pc = "DPAdd" => Trim2Empty
        /\ pc = "DependencyPropChanges" => Trim2Empty /\ ToAddFloatEmpty
        /\ pc \in {"InitializeIteration", "NumShortestPaths", "DependencyPropogation"} =>
             TrimEmpty /\ ToAddEmpty /\ Trim2Empty /\ ToAddFloatEmpty)
  /\ [][(pc = "DependencyPropogation" /\ pc' = "DPTrim") =>
          \A v \in Nodes :
            trim2'[v] = Cardinality({e \in DependencyEdges : Dst(e) = v})]_vars

\* the three buffers the code does empty
C25_OtherBuffers ==
  /\ pc = "NSPAdd" => TrimEmpty
  /\ pc = "NumShortestPathsChanges" => TrimEmpty /\ ToAddEmpty
  /\ pc = "DependencyPropChanges" => ToAddFloatEmpty
  /\ pc \in {"InitializeIteration", "NumShortestPaths", "DependencyPropogation"} =>
       TrimEmpty /\ ToAddEmpty /\ ToAddFloatEmpty

\* C27: whenever the propagate step of the sigma-phase adds sigma(t) to
\* to_add(s) on a stored edge (s, t), t has no predecessor left to wait for and
\* sigma(t) is already the number of shortest paths from the source to t; no
\* step of the phase changes the sigma of a flagged vertex.
C27_PullsFinalSigma ==
  /\ [](pc = "NumShortestPaths" =>
          \A e \in NumShortestPathsEdges :
            /\ num_predecessors[Dst(e)] = 0
            /\ num_shortest_paths[Dst(e)] =
                 RefSigma(RefDist(current_src_node), current_src_node, Dst(e)))
  /\ [][(pc \in {"NumShortestPaths", "NSPTrim", "NSPAdd", "NumShortestPathsChanges"}) =>
          \A v \in Nodes :
            (current_length[v] # infinity /\ propogation_flag[v]) =>
              (num_shortest_paths'[v] = num_shortest_paths[v])]_vars

\* a later round of the sigma-phase in which a vertex pulls from two flagged
\* predecessors that are not the source
C27_Witness ==
  /\ pc = "NumShortestPaths" /\ iterations >= 1
  /\ \E v \in Nodes :
       /\ Cardinality({e \in NumShortestPathsEdges : e[1] = v}) = 2
       /\ \A e \in NumShortestPathsEdges : e[1] = v => Dst(e) # current_src_node

\* C28: the flags move one way within a source iteration: sp_done_flag and
\* dep_done_flag never go from true to false; in the sigma-phase and in the
\* delta-phase prop_flag(v) goes from false to true only on a vertex whose
\* done flag of the phase is still false, and that step sets the done flag, so
\* it rises at most once per vertex and phase; a step that clears prop_flag(v)
\* leaves the done flag of the phase set, so the vertex is never flagged again
\* in that phase.
C28_FlagsOneWay ==
  [][(PhaseAt(pc) \in 2..6) =>
       \A v \in Nodes :
         /\ num_short_paths_flag[v] => num_short_paths_flag'[v]
         /\ dep_prop_flag[v] => dep_prop_flag'[v]
         /\ PhaseAt(pc) \notin {4, 5} => propogation_flag'[v] = propogation_flag[v]
         /\ (PhaseAt(pc) = 4 /\ ~propogation_flag[v] /\ propogation_flag'[v]) =>
              ~num_short_paths_flag[v] /\ num_short_paths_flag'[v]
         /\ (PhaseAt(pc) = 4 /\ propogation_flag[v] /\ ~propogation_flag'[v]) =>
              num_short_paths_flag'[v]
         /\ (PhaseAt(pc) = 5 /\ ~propogation_flag[v] /\ propogation_flag'[v]) =>
              ~dep_prop_flag[v] /\ dep_prop_flag'[v]
         /\ (PhaseAt(pc) = 5 /\ propogation_flag[v] /\ ~propogation_flag'[v]) =>
              dep_prop_flag'[v]]_vars

\* a later round of the delta-phase is about to flag a vertex while another
\* vertex has emitted and had its flag cleared
C28_Witness ==
  /\ pc = "DependencyPropChanges" /\ iterations >= 1
  /\ \E v, w \in Nodes :
       /\ dep_prop_flag[v] /\ ~propogation_flag[v] /\ num_successors[v] = 0
       /\ current_length[v] # infinity /\ v \in nodesWithEdges
       /\ BecomesLeaf(w)

\* C29: when the sigma-phase ends, prop_flag(v) is set exactly on the reached
\* vertices with nsucc(v) = 0, the leaves of the shortest-path DAG (a source
\* without successors included), and clear on every other vertex.
C29_LeavesFlagged ==
  AfterNumShortestPaths =>
    \A v \in Nodes :
      propogation_flag[v] <=> (current_length[v] # infinity /\ num_successors[v] = 0)

\* the sigma-phase has ended with a flagged leaf that is not the source, a
\* reached vertex that has successors, and a vertex that was not reached
C29_Witness ==
  /\ AfterNumShortestPaths
  /\ \E v, w, u \in Nodes :
       /\ v # current_src_node /\ propogation_flag[v] /\ num_successors[v] = 0
       /\ w # current_src_node /\ current_length[w] # infinity /\ num_successors[w] # 0
       /\ current_length[u] = infinity

\* the stored edges of the shortest-path DAG of the current source
CurrentDagEdges == {e \in AllEdges : DagEdge(RefDist(current_src_node), e)}

\* the sigma-phase has worked exactly once on every edge of the DAG
SigmaPhaseOnce == \A e \in CurrentDagEdges : nsp_edge_work[e] = 1

\* C30: in one source iteration the sigma-phase works exactly once on every
\* edge of the shortest-path DAG (one increment of trim, one contribution to
\* to_add), the delta-phase works exactly once on every edge of the DAG whose
\* predecessor endpoint is not the source (one increment of trim2, one
\* contribution to to_add_f), and the body of the delta-phase propagate runs
\* exactly once on every reached vertex that is not the source.
C30_EdgesOnce ==
  /\ \A e \in CurrentDagEdges : nsp_edge_work[e] <= 1 /\ dp_edge_work[e] <= 1
  /\ \A v \in Nodes : v # current_src_node => dp_body_runs[v] <= 1
  /\ pc \in {"DependencyPropogation", "DPTrim", "DPAdd", "DependencyPropChanges", "BC"} =>
       SigmaPhaseOnce
  /\ pc = "BC" =>
       /\ \A e \in CurrentDagEdges : Dst(e) # current_src_node => dp_edge_work[e] = 1
       /\ \A v \in Nodes :
            (v # current_src_node /\ current_length[v] # infinity) => dp_body_runs[v] = 1

\* the part of C30 about the sigma-phase
C30_SigmaOnly ==
  /\ \A e \in CurrentDagEdges : nsp_edge_work[e] <= 1
  /\ pc \in {"DependencyPropogation", "DPTrim", "DPAdd", "DependencyPropChanges", "BC"} =>
       SigmaPhaseOnce

\* the single-host run and the hosts stand at the start of the same phase of
\* the same source, or both between two sources
AtSamePhaseStart ==
  /\ h_pc = pc /\ h_i = i
  /\ iterations = 0 /\ h_iterations = 0
  /\ pc \in {"SSSP", "PredAndSucc", "NumShortestPaths", "DependencyPropogation", "BC",
             "for"}

\* the owner's replica of v
Owned(v) == replica[owner[v]][v]

\* C23: the result does not depend on the partitioning: over 2 hosts, after
\* every phase the owner of each vertex holds the dist, npred, nsucc, sigma,
\* delta and bc that the single-host run holds after the same phase.
C23_PartitionIndependent ==
  AtSamePhaseStart =>
    \A v \in Nodes :
      /\ Owned(v).current_length = current_length[v]
      /\ Owned(v).num_predecessors = num_predecessors[v]
      /\ Owned(v).num_successors = num_successors[v]
      /\ Owned(v).num_shortest_paths = num_shortest_paths[v]
      /\ Owned(v).dependency = dependency[v]
      /\ Owned(v).betweeness_centrality = betweeness_centrality[v]

\* every replica of every vertex holds the owner's value of field f
ReplicasAgreeOn(f) ==
  \A v \in Nodes : \A h \in Replicas(v) : replica[h][v][f] = Owned(v)[f]

\* C26: after the sync of a delta field every replica holds the owner's value
\* of the field before the field is applied; after the sync of trim2 every
\* replica holds the reduced trim2, so that after DPTrim every replica of a
\* vertex has the num_successors of its owner.
C26_ReplicasAgree ==
  /\ h_pc = "NSPTrim" => ReplicasAgreeOn("trim")
  /\ h_pc = "NSPAdd" => ReplicasAgreeOn("to_add")
  /\ h_pc = "DPTrim" => ReplicasAgreeOn("trim2")
  /\ h_pc = "DPAdd" => ReplicasAgreeOn("to_add_float") /\ ReplicasAgreeOn("num_successors")

\* the part of C26 about the fields whose sync broadcasts the field it reduces
C26_OtherFields ==
  /\ h_pc = "NSPTrim" => ReplicasAgreeOn("trim")
  /\ h_pc = "NSPAdd" => ReplicasAgreeOn("to_add")
  /\ h_pc = "DPAdd" => ReplicasAgreeOn("to_add_float")

\* C31: the delta-phase never propagates into the current source: no step of
\* the delta-phase changes trim2(source) or to_add_f(source), delta(source) is
\* 0 when the delta-phase ends, and no step of the source's own iteration
\* changes bc(source).
C31_SourceUntouched ==
  /\ [](pc = "BC" => dependency[current_src_node] = RZero)
  /\ [][(PhaseAt(pc) = 5) =>
          /\ trim2'[current_src_node] = trim2[current_src_node]
          /\ to_add_float'[current_src_node] = to_add_float[current_src_node]]_vars
  /\ [][(PhaseAt(pc) \in 1..6) =>
          betweeness_centrality'[current_src_node] =
            betweeness_centrality[current_src_node]]_vars

\* the delta-phase has ended for a source that is not vertex 0 and has a
\* successor whose propagate body has run, and some vertex holds a dependency
C31_Witness ==
  /\ pc = "BC" /\ current_src_node # 0
  /\ \E e \in AllEdges :
       /\ Dst(e) = current_src_node /\ OnShortestPath(e)
       /\ current_length[e[1]] # infinity /\ dp_body_runs[e[1]] = 1
  /\ \E v \in Nodes : RPos(dependency[v])

\* the fields of a node record that no operator may write on another vertex,
\* and the three that take atomic adds from the operators of other vertices
OwnFields ==
  {"current_length", "num_shortest_paths", "num_predecessors", "dependency",
   "betweeness_centrality", "propogation_flag", "num_short_paths_flag",
   "dep_prop_flag", "trim", "to_add"}
EdgesBetween(s, v) == {k \in EdgeIdx(s) : adj[s][k] = v}

\* a do_all of one of the three phases is at work in mem
InDoAll ==
  /\ pc \in {"PredAndSucc", "NumShortestPaths", "DependencyPropogation"}
  /\ mem.of = Superstep

\* C32: an operator applied to vertex s writes only fields of s, but for
\* nsucc, trim2 and to_add_f of the destinations of its edges, which it changes
\* by adding: a step of SSSP, PredAndSucc, NumShortestPaths or
\* DependencyPropogation on s leaves dist, sigma, npred, delta, bc, the flags,
\* trim and to_add of every other vertex as they are, and adds to nsucc and
\* trim2 of another vertex at most one per edge from s to it and to its
\* to_add_f nothing negative.
C32_WritesOwnFields ==
  /\ [][(pc = "SSSP_do_all" /\ todo' # todo) =>
          \E s \in todo : \A v \in Nodes \ {s} :
            /\ current_length'[v] = current_length[v]
            /\ num_shortest_paths'[v] = num_shortest_paths[v]
            /\ num_predecessors'[v] = num_predecessors[v]
            /\ num_successors'[v] = num_successors[v]
            /\ dependency'[v] = dependency[v]
            /\ betweeness_centrality'[v] = betweeness_centrality[v]
            /\ propogation_flag'[v] = propogation_flag[v]
            /\ trim2'[v] = trim2[v] /\ to_add_float'[v] = to_add_float[v]
            /\ trim'[v] = trim[v] /\ to_add'[v] = to_add[v]]_vars
  /\ [][(InDoAll /\ todo' # todo) =>
          \E s \in todo : \A v \in Nodes \ {s} :
            /\ \A f \in OwnFields : mem'[f][v] = mem[f][v]
            /\ \E n \in 0..Cardinality(EdgesBetween(s, v)) :
                 mem'.num_successors[v] = U32Add(mem.num_successors[v], n)
            /\ \E n \in 0..Cardinality(EdgesBetween(s, v)) :
                 mem'.trim2[v] = U32Add(mem.trim2[v], n)
            /\ RLeq(mem.to_add_float[v], mem'.to_add_float[v])]_vars

\* an operator of the delta-phase has cleared the flag of its own vertex and
\* added to trim2 and to_add_f of another vertex
C32_Witness ==
  /\ pc = "DependencyPropogation" /\ mem.of = Superstep
  /\ \E s, v \in Nodes :
       /\ s # v
       /\ propogation_flag[s] /\ ~mem.propogation_flag[s]
       /\ mem.trim2[v] = U32Add(trim2[v], 1)
       /\ RLess(to_add_float[v], mem.to_add_float[v])

\* the operator of another vertex of the range reads the record of v over an edge
ReadByAnother(s, v) ==
  \E u \in nodesWithEdges \ {s} : \E k \in EdgeIdx(u) : adj[u][k] = v

\* no operator of the do_all in mem changes a field that the operator of
\* another vertex reads in the same superstep
NoReadOfWritten ==
  [][(InDoAll /\ todo' # todo) =>
       \E s \in todo : \A v \in Nodes : \A f \in NeighbourReads(pc) :
         mem'[f][v] # mem[f][v] => ~ReadByAnother(s, v)]_vars

\* every do_all of the three phases, run operator by operator in any order,
\* ends in the state that the phase's step on the state of its start computes
OrderIndependent ==
  [][(InDoAll /\ pc' # pc) =>
       \/ pc = "PredAndSucc" /\ PredAndSucc
       \/ pc = "NumShortestPaths" /\ NumShortestPaths
       \/ pc = "DependencyPropogation" /\ DependencyPropogation]_vars

\* the distances a superstep of BFS leaves when every operator reads the
\* distances of the start of the superstep: superstep r reaches level r
SnapshotDistances ==
  [v \in Nodes |->
     IF U32Less(iterations + 1, RefDist(current_src_node)[v]) THEN infinity
     ELSE RefDist(current_src_node)[v]]

\* C33 (as stated): in every superstep of every phase, BFS included, no
\* operator reads a canonical field of a vertex that another operator may
\* write during the same superstep, and the state at the end of the superstep
\* is the same for every order of the per-vertex operators.
C33_EverySuperstep ==
  /\ NoReadOfWritten
  /\ OrderIndependent
  /\ [][(pc = "SSSP_do_all" /\ todo' # todo) =>
          \A v \in todo \ todo' :
            current_length'[v] # current_length[v] => ~ReadByAnother(v, v)]_vars
  /\ []((pc = "SSSP_do_all" /\ todo = {}) => current_length = SnapshotDistances)

\* C33 (amended): in every superstep of PredAndSucc, of the sigma-phase and of
\* the delta-phase no operator reads a canonical field of a vertex that
\* another operator may write during the same superstep, and the state at the
\* end of the superstep is the same for every order of the per-vertex
\* operators; the supersteps of BFS are order dependent, but the distances at
\* the end of the BFS phase are the hop distances for every order.
C33_SuperstepsAfterBFS ==
  /\ NoReadOfWritten
  /\ OrderIndependent
  /\ [](AfterSSSP => current_length = RefDist(current_src_node))

\* the do_all of the delta-phase has ended after two operators have added to
\* trim2 and to_add_f of the same vertex
C33_Witness ==
  /\ pc = "DependencyPropogation" /\ mem.of = Superstep /\ todo = {}
  /\ \E v \in Nodes :
       Cardinality({e \in AllEdges : Dst(e) = v /\ mem.dp_edge_work[e] = 1}) = 2

\* C35: the BC fold adds to bc(v) the delta(v) the delta-phase has left, for
\* every vertex with delta(v) > 0, leaves bc(v) as it is otherwise, and leaves
\* delta(v) = 0 for every vertex; delta(v) is 0 for every vertex whenever a
\* source iteration starts, although the per-source reset does not write it.
C35_FoldEmptiesDelta ==
  /\ [][(pc = "BC") =>
          \A v \in Nodes :
            /\ betweeness_centrality'[v] =
                 IF RPos(dependency[v])
                 THEN RAdd(betweeness_centrality[v], dependency[v])
                 ELSE betweeness_centrality[v]
            /\ dependency'[v] = RZero]_vars
  /\ [][(pc = "InitializeIteration") => dependency' = dependency]_vars
  /\ [](pc \in {"for", "InitializeIteration", "SSSP"} =>
          \A v \in Nodes : dependency[v] = RZero)

\* a later source iteration of a run starts after a fold that has added a
\* dependency to the bc of a vertex and left the bc of another at 0
C35_Witness ==
  /\ pc = "InitializeIteration" /\ i >= 1
  /\ \E v, w \in Nodes :
       RPos(betweeness_centrality[v]) /\ betweeness_centrality[w] = RZero

\* C36: with infinity = (2^32 - 1) / 4, 1 + dist(t) does not overflow the
\* uint32_t range for any stored dist, a neighbour t with dist(t) = infinity
\* never gives a new_dist below dist(s), and every stored dist is infinity or
\* smaller than the number of vertices.  (An unsigned sum 1 + len has not
\* wrapped around when len is below it.)
C36_DistancesInRange ==
  /\ \A v \in Nodes :
       current_length[v] = infinity \/ (0 <= current_length[v] /\ current_length[v] < numNodes)
  /\ \A e \in AllEdges :
       /\ U32Less(current_length[Dst(e)], U32Add(1, current_length[Dst(e)]))
       /\ current_length[Dst(e)] = infinity =>
            ~U32Less(U32Add(1, current_length[Dst(e)]), current_length[e[1]])

\* BFS has ended with a reached vertex that is not the source and has an
\* edge to a vertex that was not reached
C36_Witness ==
  /\ AfterSSSP
  /\ \E e \in AllEdges :
       /\ current_length[Dst(e)] = infinity
       /\ current_length[e[1]] # infinity /\ current_length[e[1]] >= 1

\* C37: the delta-phase loop terminates and the driver finishes. A round is
\* followed by another one exactly when it counted a work unit, a round that
\* counted one has run the body of a vertex that had not run it for this
\* source, the loop runs at most N rounds after its first, once entered the
\* phase is left for the BC fold, and main returns after the last source of
\* the last run, whatever the graph, the sources and the runs before.
C37_DeltaPhaseTerminates ==
  /\ [][/\ pc = "DependencyPropChanges" => (pc' = "BC" <=> accum = 0)
        /\ (pc = "DependencyPropogation" /\ accum' # 0) =>
             \E v \in Nodes : dp_body_runs[v] = 0 /\ dp_body_runs'[v] = 1]_vars
  /\ [](/\ PhaseAt(pc) = 5 => iterations <= numNodes
        /\ \A v \in Nodes : dp_body_runs[v] <= 1
        /\ pc = "done" => (~(i < loop_end) /\ Len(bc_of_run) = run + 1))
  /\ (pc = "DependencyPropogation") ~> (pc = "BC")
  /\ <>(pc = "done")

\* main has returned after a second run over every vertex as a source, the
\* last of which needed a later round of the delta-phase
C37_Witness ==
  /\ pc = "done" /\ run = 1 /\ i >= 3
  /\ \E v \in Nodes : RPos(betweeness_centrality[v])
  /\ \E e \in AllEdges : dp_edge_work[e] = 1

\* the lines a verification prints for the bc the owners hold
DumpOfOwners ==
  {<<v, Printf9(replica[owner[v]][v].betweeness_centrality)>> : v \in Nodes}

\* the last run has ended and what it left is dumped unchanged: neither a
\* clear of the bitsets nor InitializeGraph is called after it
LastRunDumped ==
  /\ [](h_pc \in {"verified", "done"} =>
          /\ \A k \in 1..Len(main_log) :
               main_log[k] \notin {"bitset_reset", "InitializeGraph"}
          /\ output # {} => output = DumpOfOwners)
  /\ [][(h_pc \in {"run_end", "verified"} /\ h_pc' \in {"verified", "done"}) =>
          (replica' = replica /\ bitset' = bitset)]_vars

\* C34 as stated: between two runs main clears the bitsets, then waits on the
\* host barrier, then calls InitializeGraph; after the last run it does none
\* of the three, and the bc of the last run is what verification dumps.
C34_ClearThenBarrier ==
  /\ [](h_pc = "next_run" =>
          main_log = <<"bitset_reset", "getHostBarrier_wait", "InitializeGraph">>)
  /\ [](h_pc = "done" => main_log = << >>)
  /\ LastRunDumped

\* C34: between two runs main waits on the host barrier, then clears the
\* bitsets, then calls InitializeGraph, which leaves every bitset empty and
\* bc = 0 on every local vertex; after the last run it calls neither the clear
\* nor InitializeGraph, the bc of the last run is what verification dumps,
\* and main waits on the host barrier once, after the dump.
C34_BarrierThenClear ==
  /\ [](h_pc = "next_run" =>
          /\ main_log = <<"getHostBarrier_wait", "bitset_reset", "InitializeGraph">>
          /\ \A h \in Hosts :
               /\ \A f \in SyncedFields : bitset[h][f] = {}
               /\ \A v \in LocalNodes(h) : replica[h][v].betweeness_centrality = RZero)
  /\ [](h_pc = "done" => main_log = <<"getHostBarrier_wait">>)
  /\ LastRunDumped

\* the hosts are ready for a second run after a first one that left a bc
\* above 0 on the owner of a vertex
C34_Witness ==
  /\ h_pc = "next_run" /\ Len(main_log) = 3
  /\ Len(bc_of_run) = 1
  /\ \E v \in Nodes : RPos(bc_of_run[1][v])

\* the record insertStat has just pushed on the list of thread x
LastRecord(x) == Stats'[x].stats[Len(Stats'[x].stats)]

\* C38: calls made one after the other. A stat reported for loop L by
\* reportStat(loop, category, value) is recorded under the names it was
\* reported with and with instance number max(0, b - 1), b being the number of
\* reportLoopInstance(L) calls made before; the loop-instance table is sorted
\* by symbol, holds no entry for a loop that was never begun and one entry,
\* with count b - 1, for a loop begun b >= 1 times.
C38_InstanceNumbers ==
  /\ [][\A t \in Threads :
          (/\ sm_thread[t].pc = "insertStat"
           /\ sm_thread'[t].pc = "idle"
           /\ sm_thread[t].kind = "value") =>
            /\ heap[LastRecord(t).loop] = sm_thread[t].loop
            /\ heap[LastRecord(t).category] = sm_thread[t].category
            /\ LastRecord(t).instance =
                 IF begun[sm_thread[t].loop] = 0 THEN 0
                 ELSE begun[sm_thread[t].loop] - 1]_vars
  /\ [](/\ \A j, k \in 1..Len(loopInstances) :
             j < k => loopInstances[j][1] < loopInstances[k][1]
        /\ \A l \in LoopNames :
             LET entries == {k \in 1..Len(loopInstances) : heap[loopInstances[k][1]] = l}
             IN  IF begun[l] = 0 THEN entries = {}
                 ELSE /\ Cardinality(entries) = 1
                      /\ \A k \in entries : loopInstances[k][2] = begun[l] - 1)

\* a stat reported after two reportLoopInstance calls of its loop is recorded
\* with instance 1
C38_Witness ==
  /\ activeThreads = 1 /\ sm_thread[0].pc = "idle"
  /\ \E k \in 1..Len(Stats[0].stats) :
       /\ Stats[0].stats[k].instance = 1
       /\ begun[heap[Stats[0].stats[k].loop]] = 2

\* the records on the list of thread x that carry the names loop and category
RecordsOf(x, loop, category) ==
  {k \in 1..Len(Stats[x].stats) :
     /\ heap[Stats[x].stats[k].loop] = loop
     /\ heap[Stats[x].stats[k].category] = category}

\* C39: reportStat calls of different threads are safe. A thread is in
\* stats.push_back of a list only while it holds the list's lock, no two
\* threads are inside symbols.insert at the same time, and when the calls
\* have returned every list holds one record for each report made to it.
C39_ReportStatSafe ==
  /\ \A t \in Threads :
       sm_thread[t].pc = "insertStat" =>
         /\ Stats[sm_thread[t].x].lock = t
         /\ \A u \in Threads \ {t} :
              sm_thread[u].pc = "insertStat" => sm_thread[u].x # sm_thread[t].x
  /\ Cardinality({t \in Threads : sm_thread[t].pc = "insert"}) <= 1
  /\ (\A t \in Threads : sm_thread[t].pc = "idle") =>
       \A k \in DOMAIN reported :
         Cardinality(RecordsOf(k[1], k[2], k[3])) = reported[k]

============================================================================
